---- MODULE Spec2Model ----
(***************************************************************************)
(* Legatus orchestration engine: task store, checkpoint manager, task      *)
(* dispatcher and the event-bus reactor, as a state machine over the       *)
(* persistent store.  Every handler (one agent message, one HTTP request)  *)
(* is one action; inside a handler the store is threaded through the       *)
(* calls in program order, and an exception stops the calls that follow it *)
(* up to the enclosing try/except, keeping the writes already made.        *)
(*                                                                         *)
(* Names the source uses but does not declare in the files at hand         *)
(* (TaskStatus.TESTING, AgentRole.REVIEWER/QA, Task.branch_name, the       *)
(* settings flags, the source_role keyword of CheckpointManager.create)    *)
(* are taken as declared; every table and function body is the source's.   *)
(***************************************************************************)
EXTENDS Integers, Sequences, FiniteSets, TLC

\* ---------------------------------------------------------------- bounds
MaxRoots == 1      \* campaigns submitted in one run
MaxCampaigns == 2  \* campaigns submitted in one run of two campaigns at a time
MaxSub == 2        \* entries of a PM plan
MaxAgents == 5     \* agent containers spawned in one run
MaxReviewedAgents == 7  \* the same, in a parallel campaign with a Reviewer per sub-task
MaxClients == 2    \* WebSocket clients that connect in one run
MaxIncidents == 1  \* incidents in one run: a handler that meets a docker or git
                   \* fault, a message the bus delivers twice, a request on an
                   \* already resolved checkpoint
MaxRetries == 1    \* largest reviewer_max_retries / qa_max_retries configured

\* ------------------------------------------------------------ vocabulary
CREATED == "created"
PLANNED == "planned"
ACTIVE == "active"
REVIEW == "review"
TESTING == "testing"
BLOCKED == "blocked"
REJECTED == "rejected"
DONE == "done"

TaskStatus == {CREATED, PLANNED, ACTIVE, REVIEW, TESTING, BLOCKED, REJECTED, DONE}

DEV == "dev"
PM == "pm"
ARCHITECT == "architect"
REVIEWER == "reviewer"
QA == "qa"

PENDING == "pending"
APPROVED == "approved"

TASK_COMPLETE == "task_complete"
TASK_FAILED == "task_failed"

PER_SUBTASK == "per_subtask"
PER_CAMPAIGN == "per_campaign"

NoTask == 0
NoRole == "none"

\* models/task.py VALID_TRANSITIONS; a status without a row allows nothing
\* (VALID_TRANSITIONS.get(status, [])).
VALID_TRANSITIONS(st) ==
    CASE st = CREATED -> {PLANNED}
      [] st = PLANNED -> {ACTIVE}
      [] st = ACTIVE -> {REVIEW, BLOCKED}
      [] st = BLOCKED -> {ACTIVE}
      [] st = REVIEW -> {DONE, REJECTED}
      [] st = REJECTED -> {PLANNED}
      [] OTHER -> {}

\* dispatcher's _RUNNING_STATUSES
_RUNNING_STATUSES == {ACTIVE, REVIEW, TESTING}

VARIABLES
    settings,   \* LegatusSettings.agent flags, fixed for a run
    tasks,      \* task:{id}      id -> Task
    agents,     \* agent:{id}     id -> AgentInfo
    cps,        \* checkpoint:{id} id -> Checkpoint
    pending,    \* checkpoints:pending index
    running,    \* agent containers that have not yet sent their final message
    git,        \* task worktrees and branches, the branches merged, the campaign
                \* working branches, those finalisation tried to merge back and
                \* those it merged, and the branch checked out
    delivered,  \* agent messages the reactor has handled (may be redelivered)
    ids,        \* id generators (uuid4) and the counters that bound a run
    last,       \* the handler that ran last and what it observed
    mid,        \* observations of the store between the writes of handlers
    paused,     \* the process-wide paused flag of the store
    co,         \* the approve request that is suspended at an await, if any
    ws          \* EventBus.ws_connections, the WebSocket clients, the broadcast
                \* under way and whether the reactor loop still runs

vars == <<settings, tasks, agents, cps, pending, running, git, delivered, ids, last, mid,
          paused, co, ws>>

\* ------------------------------------------------------------- utilities
Max(a, b) == IF a >= b THEN a ELSE b

\* a handler's progress: the store so far, whether an exception is
\* propagating, and the value returned
Ok(s) == [s |-> s, ex |-> FALSE, ret |-> "none"]
Ret(s, v) == [s |-> s, ex |-> FALSE, ret |-> v]
Raise(s) == [s |-> s, ex |-> TRUE, ret |-> "none"]
Then(r, F(_)) == IF r.ex THEN r ELSE F(r.s)
ThenR(r, F(_, _)) == IF r.ex THEN r ELSE F(r.s, r.ret)
Catch(r, H(_)) == IF r.ex THEN H(r.s) ELSE r
Try(r, F(_, _), H(_)) == IF r.ex THEN H(r.s) ELSE F(r.s, r.ret)

NoOutput == [by |-> 0, v |-> "absent"]
NoOutputs ==
    [pm |-> NoOutput, architect |-> NoOutput, dev |-> NoOutput,
     reviewer |-> NoOutput, qa |-> NoOutput,
     reviewer_feedback |-> NoOutput, qa_feedback |-> NoOutput,
     _original_branch |-> NoOutput]

\* models/task.py Task(...): the fields the engine reads and writes
Task(parent_id, depends_on) ==
    [status |-> CREATED, history |-> <<CREATED>>, parent_id |-> parent_id,
     subtask_ids |-> <<>>, depends_on |-> depends_on,
     agent_outputs |-> NoOutputs, reviewer_retry_count |-> 0,
     qa_retry_count |-> 0, branch_name |-> FALSE, assigned_to |-> 0,
     guidance |-> 0]

\* P3 on one store: every running sub-task has all its dependencies DONE
DepsDone(ts) ==
    \A t \in DOMAIN ts :
        (ts[t].parent_id # NoTask /\ ts[t].status \in _RUNNING_STATUSES)
            => \A d \in ts[t].depends_on : d \in DOMAIN ts /\ ts[d].status = DONE

RecordsOf(ag, t) == {a \in DOMAIN ag : ag[a].task_id = t}

PeakOf(ag) ==
    IF DOMAIN ag = {} THEN 0
    ELSE CHOOSE n \in 0..Cardinality(DOMAIN ag) :
            /\ \E a \in DOMAIN ag : Cardinality(RecordsOf(ag, ag[a].task_id)) = n
            /\ \A a \in DOMAIN ag : Cardinality(RecordsOf(ag, ag[a].task_id)) <= n

\* what an observer of the store sees after a write inside a handler
Observe(s) ==
    [s EXCEPT !.peak = Max(@, PeakOf(s.agents)),
              !.depsBroken = IF DepsDone(s.tasks) THEN @ ELSE @ \cup {s.ctx}]

\* -------------------------------------------------------------- TaskStore
\* TaskStore.create
create(s, id, task) == Observe([s EXCEPT !.tasks = (id :> task) @@ @])

\* TaskStore.get: a copy of the stored task, or None
Has(s, id) == id \in DOMAIN s.tasks
get(s, id) == s.tasks[id]

\* TaskStore.update: writes the whole object the caller holds; stale notes
\* the tasks whose stored status differed from the one written
update(s, id, task) ==
    Observe([s EXCEPT !.tasks[id] = task,
                      !.stale = IF id \in DOMAIN s.tasks /\ s.tasks[id].status # task.status
                                THEN @ \cup {id} ELSE @])

\* update_status without the look-up in the transition table
update_status_unchecked(s, task_id, new_status) ==
    IF ~Has(s, task_id) THEN Raise(s)
    ELSE LET task == get(s, task_id) IN
         Ok(Observe([s EXCEPT !.tasks[task_id] =
                                  [task EXCEPT !.status = new_status,
                                               !.history = Append(@, new_status)]]))

\* TaskStore.update_status
update_status(s, task_id, new_status) ==
    IF ~Has(s, task_id) THEN Raise(s)
    ELSE LET task == get(s, task_id) IN
         IF new_status \notin VALID_TRANSITIONS(task.status) THEN Raise(s)
         ELSE Ok(Observe([s EXCEPT !.tasks[task_id] =
                                       [task EXCEPT !.status = new_status,
                                                    !.history = Append(@, new_status)]]))

\* TaskManager.transition
transition(s, task_id, new_status) == update_status(s, task_id, new_status)

\* TaskManager.on_task_complete: ACTIVE -> REVIEW -> DONE
on_task_complete(s, task_id) ==
    Then(transition(s, task_id, REVIEW), LAMBDA s1 : transition(s1, task_id, DONE))

\* TaskManager.on_task_failed: ACTIVE -> REVIEW -> REJECTED
on_task_failed(s, task_id) ==
    Then(transition(s, task_id, REVIEW), LAMBDA s1 : transition(s1, task_id, REJECTED))

\* ------------------------------------------------------ CheckpointManager
\* CheckpointManager.create: the checkpoint is stored and indexed as
\* pending before the task is blocked
checkpoint_create(s, task_id, source_role) ==
    LET id == s.nextCp
        s1 == [s EXCEPT !.cps = (id :> [task_id |-> task_id, status |-> PENDING,
                                         source_role |-> source_role,
                                         rejection_reason |-> FALSE]) @@ @,
                        !.pending = @ \cup {id},
                        !.nextCp = @ + 1]
    IN update_status(s1, task_id, BLOCKED)

\* CheckpointManager.approve
approve(s, checkpoint_id) ==
    IF checkpoint_id \notin DOMAIN s.cps THEN Ret(s, "None")
    ELSE LET cp == s.cps[checkpoint_id]
             s1 == [s EXCEPT !.cps[checkpoint_id].status = APPROVED,
                             !.pending = @ \ {checkpoint_id},
                             !.approvals = @ \cup {checkpoint_id}]
         IN Then(update_status(s1, cp.task_id, ACTIVE), LAMBDA s2 : Ret(s2, "cp"))

\* CheckpointManager.reject
reject(s, checkpoint_id) ==
    IF checkpoint_id \notin DOMAIN s.cps THEN Ret(s, "None")
    ELSE LET cp == s.cps[checkpoint_id]
             s1 == [s EXCEPT !.cps[checkpoint_id].status = REJECTED,
                             !.cps[checkpoint_id].rejection_reason = TRUE,
                             !.pending = @ \ {checkpoint_id}]
         IN IF Has(s1, cp.task_id) /\ get(s1, cp.task_id).status = BLOCKED
            THEN Then(update_status(s1, cp.task_id, ACTIVE), LAMBDA s2 : Ret(s2, "cp"))
            ELSE Ret(s1, "cp")

\* ------------------------------------------------------------ AgentSpawner
\* AgentSpawner.spawn_agent: docker run; raises when the container cannot
\* be started (s.spawn_ok lists the outcomes of this handler's attempts in
\* order), else returns the AgentInfo (here its fresh id: the role and the
\* task are the caller's arguments)
spawn_agent(s, task_id, role) ==
    LET ok == IF s.spawn_ok = <<>> THEN TRUE ELSE Head(s.spawn_ok)
        s1 == [s EXCEPT !.spawn_ok = IF @ = <<>> THEN @ ELSE Tail(@)]
    IN IF ~ok THEN Raise([s1 EXCEPT !.unspawned = @ \cup {[task_id |-> task_id, role |-> role]}])
       ELSE Ret([s1 EXCEPT !.running = (s.nextAgent :> [role |-> role, task_id |-> task_id]) @@ @,
                            !.nextAgent = @ + 1],
                s.nextAgent)

\* ------------------------------------------------------------- StateStore
\* StateStore.set_agent_info for a freshly spawned agent
set_agent_info(s, agent_id, role, task_id) ==
    Observe([s EXCEPT !.agents =
        (agent_id :> [role |-> role, status |-> "starting", task_id |-> task_id])
            @@ [a \in DOMAIN @ \ {agent_id} |-> @[a]]])

\* StateStore.remove_agent
remove_agent(s, agent_id) ==
    [s EXCEPT !.agents = [a \in DOMAIN @ \ {agent_id} |-> @[a]]]

\* ---------------------------------------------------------- TaskDispatcher
\* parse_architect_output on the stored raw output: a plan or None
parse_architect_output(raw) == raw.v = "ok"

\* _format_architect_context: is there guidance text to append
_format_architect_context(parent) ==
    /\ parent.agent_outputs.architect # NoOutput
    /\ parse_architect_output(parent.agent_outputs.architect)

\* a dependency check that lets every PLANNED child through
deps_met_skipped(s, child) == TRUE

\* the dependency check of dispatch_next / dispatch_all_ready
deps_met(s, child) ==
    \A dep_id \in child.depends_on : Has(s, dep_id) /\ get(s, dep_id).status = DONE

\* PLANNED -> ACTIVE -> REVIEW -> REJECTED after a failed spawn or worktree
walk_to_rejected(s, child_id) ==
    Then(update_status(s, child_id, ACTIVE), LAMBDA s1 :
    Then(update_status(s1, child_id, REVIEW), LAMBDA s2 :
         update_status(s2, child_id, REJECTED)))

\* the tail of a successful dispatch: record the agent, PLANNED -> ACTIVE,
\* assigned_to
record_dispatch(s, child_id, agent_id) ==
    Then(update_status(set_agent_info(s, agent_id, DEV, child_id), child_id, ACTIVE),
         LAMBDA s1 :
            IF Has(s1, child_id)
            THEN Ok(update(s1, child_id, [get(s1, child_id) EXCEPT !.assigned_to = agent_id]))
            ELSE Ok(s1))

\* the architect-context injection of dispatch_next / dispatch_all_ready:
\* appended whenever the parent has parsable architect output
inject_context(s, parent, child_id) ==
    IF _format_architect_context(parent)
    THEN update(s, child_id, [get(s, child_id) EXCEPT !.guidance = @ + 1])
    ELSE s

\* TaskDispatcher.dispatch_next, the loop from position i of subtask_ids
RECURSIVE dispatch_next_from(_, _, _)
dispatch_next_from(s, parent, i) ==
    IF i > Len(parent.subtask_ids) THEN Ret(s, "false")
    ELSE LET child_id == parent.subtask_ids[i] IN
         IF ~Has(s, child_id) \/ get(s, child_id).status # PLANNED
         THEN dispatch_next_from(s, parent, i + 1)
         ELSE IF ~deps_met(s, get(s, child_id))
         THEN dispatch_next_from(s, parent, i + 1)
         ELSE Try(spawn_agent(inject_context(s, parent, child_id), child_id, DEV),
                  LAMBDA s1, agent_id :
                      Then(record_dispatch(s1, child_id, agent_id),
                           LAMBDA s2 : Ret(s2, "true")),
                  LAMBDA s1 :
                      Then(walk_to_rejected(s1, child_id),
                           LAMBDA s2 : dispatch_next_from(s2, parent, i + 1)))

dispatch_next(s, parent_id) ==
    IF ~Has(s, parent_id) THEN Ret(s, "false")
    ELSE dispatch_next_from(s, get(s, parent_id), 1)

\* GitOps.create_worktree for a task: raises when git fails
create_worktree(s, child_id) ==
    IF s.git_ok THEN Ok([s EXCEPT !.worktrees = @ \cup {child_id},
                                  !.branches = @ \cup {child_id}])
    ELSE Raise(s)

\* GitOps.remove_worktree / delete_branch (failures are swallowed by callers)
remove_worktree(s, child_id) == [s EXCEPT !.worktrees = @ \ {child_id}]
delete_branch(s, child_id) == [s EXCEPT !.branches = @ \ {child_id}]

\* TaskDispatcher.dispatch_all_ready, the loop from position i; n counts
\* the children dispatched so far
RECURSIVE dispatch_all_ready_from(_, _, _, _)
dispatch_all_ready_from(s, parent, i, n) ==
    IF i > Len(parent.subtask_ids) THEN Ret(s, n)
    ELSE LET child_id == parent.subtask_ids[i] IN
         IF ~Has(s, child_id) \/ get(s, child_id).status # PLANNED
         THEN dispatch_all_ready_from(s, parent, i + 1, n)
         ELSE IF ~deps_met(s, get(s, child_id))
         THEN dispatch_all_ready_from(s, parent, i + 1, n)
         ELSE Try(create_worktree(inject_context(s, parent, child_id), child_id),
                  LAMBDA s1, none :
                      Try(spawn_agent(update(s1, child_id,
                                             [get(s1, child_id) EXCEPT !.branch_name = TRUE]),
                                      child_id, DEV),
                          LAMBDA s3, agent_id :
                              Then(record_dispatch(s3, child_id, agent_id), LAMBDA s4 :
                                   dispatch_all_ready_from(s4, parent, i + 1, n + 1)),
                          LAMBDA s3 :
                              Then(walk_to_rejected(
                                       delete_branch(remove_worktree(s3, child_id), child_id),
                                       child_id),
                                   LAMBDA s4 : dispatch_all_ready_from(s4, parent, i + 1, n))),
                  LAMBDA s1 :
                      Then(walk_to_rejected(s1, child_id),
                           LAMBDA s2 : dispatch_all_ready_from(s2, parent, i + 1, n)))

\* dispatch_all_ready starting its loop at the second child
dispatch_all_ready_from_second(s, parent_id) ==
    IF ~Has(s, parent_id) THEN Ret(s, 0)
    ELSE ThenR(dispatch_all_ready_from(s, get(s, parent_id), 2, 0), LAMBDA s1, n :
               Ret([s1 EXCEPT !.dispatches = @ \cup
                       {[parent_id |-> parent_id, before |-> s.tasks, after |-> s1.tasks,
                         agents |-> s1.agents, worktrees |-> s1.worktrees,
                         branches |-> s1.branches, head |-> s1.head,
                         ret |-> n]}],
                   n))

\* TaskDispatcher.dispatch_all_ready; dispatches notes the tasks before and
\* after each call that returned, with what it left and what it returned
dispatch_all_ready(s, parent_id) ==
    IF ~Has(s, parent_id) THEN Ret(s, 0)
    ELSE ThenR(dispatch_all_ready_from(s, get(s, parent_id), 1, 0), LAMBDA s1, n :
               Ret([s1 EXCEPT !.dispatches = @ \cup
                       {[parent_id |-> parent_id, before |-> s.tasks, after |-> s1.tasks,
                         agents |-> s1.agents, worktrees |-> s1.worktrees,
                         branches |-> s1.branches, head |-> s1.head,
                         ret |-> n]}],
                   n))

\* TaskDispatcher.dispatch_single: the retry dispatch of one task
dispatch_single(s, task_id, task) ==
    Try(spawn_agent(IF /\ task.parent_id # NoTask
                       /\ Has(s, task.parent_id)
                       /\ _format_architect_context(get(s, task.parent_id))
                       /\ task.guidance = 0
                    THEN update(s, task_id, [task EXCEPT !.guidance = @ + 1])
                    ELSE s,
                    task_id, DEV),
        LAMBDA s1, agent_id :
            Then(update_status(set_agent_info(s1, agent_id, DEV, task_id), task_id, ACTIVE),
                 LAMBDA s2 :
                    Ret(IF Has(s2, task_id)
                        THEN update(s2, task_id, [get(s2, task_id) EXCEPT !.assigned_to = agent_id])
                        ELSE s2,
                        "true")),
        LAMBDA s1 : Ret(s1, "false"))

\* the statuses the children of a parent have in the store
ChildStatuses(s, parent) ==
    {get(s, parent.subtask_ids[i]).status :
        i \in {j \in 1..Len(parent.subtask_ids) : Has(s, parent.subtask_ids[j])}}

\* the classification loop of on_subtask_complete over the children
all_done(s, parent) ==
    \A i \in 1..Len(parent.subtask_ids) :
        LET c == parent.subtask_ids[i] IN
        Has(s, c) => get(s, c).status \in {REJECTED, DONE}
any_failed(s, parent) ==
    \E i \in 1..Len(parent.subtask_ids) :
        LET c == parent.subtask_ids[i] IN Has(s, c) /\ get(s, c).status = REJECTED
any_running(s, parent) ==
    \E i \in 1..Len(parent.subtask_ids) :
        LET c == parent.subtask_ids[i] IN
        Has(s, c) /\ get(s, c).status \in _RUNNING_STATUSES

\* TaskDispatcher.on_subtask_complete; answers notes what each call of this
\* handler was given and what it returned ("raise": it did not return)
on_subtask_complete(s, parent_id) ==
    IF ~Has(s, parent_id) THEN Ret(s, "None")
    ELSE LET parent == get(s, parent_id)
             store == [s EXCEPT !.answers = @ \cup
                          {[parent_id |-> parent_id, status |-> parent.status,
                            children |-> ChildStatuses(s, parent),
                            ret |-> IF parent.status = BLOCKED THEN "None"
                                    ELSE IF all_done(s, parent) THEN "all_done"
                                    ELSE IF any_failed(s, parent) /\ ~any_running(s, parent)
                                    THEN IF parent.status = ACTIVE THEN "failed" ELSE "raise"
                                    ELSE "None"]}]
         IN
         IF parent.status = BLOCKED THEN Ret(store, "None")
         ELSE IF all_done(s, parent)
         THEN Ret([store EXCEPT !.finalised = @ \cup {<<parent_id, ChildStatuses(s, parent)>>}],
                  "all_done")
         ELSE IF any_failed(s, parent) /\ ~any_running(s, parent)
         THEN Then(update_status(store, parent_id, REVIEW), LAMBDA s1 :
              Then(update_status(s1, parent_id, REJECTED), LAMBDA s2 : Ret(s2, "failed")))
         ELSE IF any_failed(s, parent) THEN Ret(store, "None")
         ELSE IF settings.parallel_enabled
         THEN Then(dispatch_all_ready(store, parent_id), LAMBDA s1 : Ret(s1, "None"))
         ELSE Then(dispatch_next(store, parent_id), LAMBDA s1 : Ret(s1, "None"))

\* TaskDispatcher.cleanup_subtasks, the loop from position i
RECURSIVE cleanup_subtasks_from(_, _, _)
cleanup_subtasks_from(s, parent, i) ==
    IF i > Len(parent.subtask_ids) THEN Ok(s)
    ELSE LET child_id == parent.subtask_ids[i] IN
         IF ~Has(s, child_id) \/ get(s, child_id).status \notin {CREATED, PLANNED}
         THEN cleanup_subtasks_from(s, parent, i + 1)
         ELSE Then(IF get(s, child_id).status = CREATED
                   THEN update_status(s, child_id, PLANNED) ELSE Ok(s), LAMBDA s1 :
              Then(walk_to_rejected(s1, child_id), LAMBDA s2 :
                   cleanup_subtasks_from(s2, parent, i + 1)))

\* cleanup_subtasks leaving the children as they are
cleanup_subtasks_skipped(s, parent_id) == Ok(s)

cleanup_subtasks(s, parent_id) ==
    IF ~Has(s, parent_id) THEN Ok(s)
    ELSE LET r == cleanup_subtasks_from([s EXCEPT !.ctx = "cleanup_subtasks"],
                                        get(s, parent_id), 1)
         IN [r EXCEPT !.s.ctx = s.ctx]

\* ---------------------------------------------------------------- parsers
\* pm_parser._validate_plan on the raw "subtasks" list: entries without
\* title or description are skipped, an entry at raw position i keeps the
\* dependencies d with 0 <= d < i; None (here <<>>) when nothing remains
RECURSIVE _validate_plan_from(_, _)
_validate_plan_from(raw, i) ==
    IF i > Len(raw) THEN <<>>
    ELSE IF ~raw[i].ok THEN _validate_plan_from(raw, i + 1)
    ELSE <<[depends_on |-> {d \in raw[i].depends_on : 0 <= d /\ d < i - 1}]>>
            \o _validate_plan_from(raw, i + 1)

parse_pm_output(output) == _validate_plan_from(output.plan, 1)

\* reviewer_parser / qa_parser: None unless the verdict is a known one
parse_reviewer_output(output) ==
    IF output.v \in {"approve", "reject"}
    THEN [verdict |-> output.v, security_concerns |-> output.sec]
    ELSE [verdict |-> "None", security_concerns |-> FALSE]

parse_qa_output(output) ==
    IF output.v \in {"pass", "fail"} THEN [verdict |-> output.v] ELSE [verdict |-> "None"]

\* the agent's output text as stored on the task
Output(msg) == [by |-> msg.agent_id, v |-> msg.v]

\* _AUTO_RESOLVE_PATTERNS matched with fnmatch against a conflicted path
AutoResolvable(f) ==
    f \in {".coverage", "htmlcov/x", "__pycache__/m.pyc", "dist/out.tar", ".DS_Store", "x.log"}

\* _can_auto_resolve
_can_auto_resolve(conflict_files) == \A f \in conflict_files : AutoResolvable(f)

\* ------------------------------------------------------- EventBus: merging
\* a cleanup that removes the worktree and forgets the branch
_cleanup_worktree_keeps_branch(s, task_id) == remove_worktree(s, task_id)

\* EventBus._cleanup_worktree
_cleanup_worktree(s, task_id) == delete_branch(remove_worktree(s, task_id), task_id)

\* EventBus._merge_and_cleanup; returns "true" (merged or given up) or
\* "false" (conflict, checkpoint requested).  merge is what git answers, and
\* merges notes the answer this handler got for the task's branch.
_merge_and_cleanup(store, task_id) ==
    LET m == store.merge
        s == [store EXCEPT !.merges = @ \cup {[task_id |-> task_id, merge |-> m, into |-> store.head]}]
    IN
    IF m.result = "raise" THEN Ret(remove_worktree(s, task_id), "true")
    ELSE IF m.result = "success"
    THEN Ret(_cleanup_worktree([s EXCEPT !.merged = @ \cup {task_id}], task_id), "true")
    ELSE IF m.conflict_files # {}
    THEN IF _can_auto_resolve(m.conflict_files) /\ m.resolve_ok
         THEN Ret(_cleanup_worktree(
                      [s EXCEPT !.merged = IF m.commit_ok THEN @ \cup {task_id} ELSE @],
                      task_id), "true")
         ELSE Then(checkpoint_create(s, task_id, "merge_conflict"),
                   LAMBDA s1 : Ret(s1, "false"))
    ELSE Ret(remove_worktree(s, task_id), "true")

\* --------------------------------------------------- EventBus: gate chain
RECURSIVE _spawn_reviewer(_, _, _), _reviewer_approve(_, _, _), _spawn_qa(_, _, _),
          _qa_approve(_, _), _handle_subtask_done(_, _, _), _on_campaign_done(_, _)

\* EventBus._spawn_reviewer: a failed spawn auto-approves
_spawn_reviewer(s, task_id, task) ==
    Try(spawn_agent(s, task_id, REVIEWER),
        LAMBDA s1, agent_id : Ok(set_agent_info(s1, agent_id, REVIEWER, task_id)),
        LAMBDA s1 : _reviewer_approve(s1, task_id, task))

\* EventBus._reviewer_approve
_reviewer_approve(s, task_id, task) ==
    IF settings.qa_enabled /\ settings.qa_mode = PER_SUBTASK /\ task.parent_id # NoTask
    THEN Then(update_status(s, task_id, TESTING), LAMBDA s1 :
              IF Has(s1, task_id) THEN _spawn_qa(s1, task_id, get(s1, task_id)) ELSE Ok(s1))
    ELSE IF settings.qa_enabled /\ settings.qa_mode = PER_CAMPAIGN /\ task.parent_id = NoTask
    THEN Then(update_status(s, task_id, TESTING), LAMBDA s1 :
              IF Has(s1, task_id) THEN _spawn_qa(s1, task_id, get(s1, task_id)) ELSE Ok(s1))
    ELSE Then(update_status(s, task_id, DONE), LAMBDA s1 :
              IF Has(s1, task_id) THEN _handle_subtask_done(s1, task_id, get(s1, task_id))
              ELSE Ok(s1))

\* EventBus._spawn_qa: a failed spawn auto-passes
_spawn_qa(s, task_id, task) ==
    Try(spawn_agent(s, task_id, QA),
        LAMBDA s1, agent_id : Ok(set_agent_info(s1, agent_id, QA, task_id)),
        LAMBDA s1 : _qa_approve(s1, task_id))

\* EventBus._qa_approve: TESTING -> DONE
_qa_approve(s, task_id) ==
    Then(update_status(s, task_id, DONE), LAMBDA s1 :
         IF Has(s1, task_id) THEN _handle_subtask_done(s1, task_id, get(s1, task_id))
         ELSE Ok(s1))

\* EventBus._handle_subtask_done
_handle_subtask_done(s, task_id, task) ==
    IF task.parent_id = NoTask THEN Ok(s)
    ELSE ThenR(IF task.branch_name THEN _merge_and_cleanup(s, task_id) ELSE Ret(s, "true"),
               LAMBDA s1, merged :
                   IF merged = "false" THEN Ok(s1)
                   ELSE ThenR(on_subtask_complete(s1, task.parent_id), LAMBDA s2, result :
                              IF result = "all_done" THEN _on_campaign_done(s2, task.parent_id)
                              ELSE Ok(s2)))

\* EventBus._aggregate_child_outputs, stored under "dev" on the parent
Aggregated == [by |-> 0, v |-> "aggregated"]

\* what checkout(original_branch) and merge_branch(campaign branch) answer
\* in _finalize_campaign_branch: "raise" when the checkout fails, "failed"
\* when the campaign branch no longer exists, "success" with nothing to do
\* when the saved branch is the campaign branch itself, else git's answer
merge_answer(s, parent_id, original_branch) ==
    IF s.final = "raise" THEN "raise"
    ELSE IF parent_id \notin s.campaigns THEN "failed"
    ELSE IF original_branch = parent_id THEN "success"
    ELSE s.final

\* _finalize_campaign_branch deleting the campaign branch whatever the merge
\* into the original branch answered
_finalize_campaign_branch_always_deletes(s, parent_id, parent) ==
    IF parent.agent_outputs._original_branch = NoOutput THEN s
    ELSE [s EXCEPT !.landings = @ \cup
                      {[parent_id |-> parent_id, status |-> parent.status,
                        final |-> merge_answer(s, parent_id, parent.agent_outputs._original_branch.by),
                        into |-> parent.agent_outputs._original_branch.by]},
                   !.tried = @ \cup {parent_id},
                   !.head = parent.agent_outputs._original_branch.by,
                   !.landed = IF merge_answer(s, parent_id,
                                     parent.agent_outputs._original_branch.by) = "success"
                              THEN @ \cup {parent_id} ELSE @,
                   !.campaigns = @ \ {parent_id}]

\* EventBus._finalize_campaign_branch: check out the saved original branch
\* and merge the campaign working branch into it; final is what git answers
\* ("raise": the checkout fails).  Every error is logged and swallowed.
\* When the saved branch is the campaign branch itself the merge has nothing
\* to do and git refuses to delete the branch that is checked out
\* (delete_branch runs with check=False).
_finalize_campaign_branch(s, parent_id, parent) ==
    IF parent.agent_outputs._original_branch = NoOutput THEN s
    ELSE LET original_branch == parent.agent_outputs._original_branch.by
             final == merge_answer(s, parent_id, original_branch)
             noted == [s EXCEPT !.landings = @ \cup
                          {[parent_id |-> parent_id, status |-> parent.status,
                            final |-> final, into |-> original_branch]},
                                !.tried = @ \cup {parent_id}]
         IN CASE final = "raise" -> noted
              [] original_branch = parent_id -> [noted EXCEPT !.head = original_branch]
              [] final = "success" ->
                    [noted EXCEPT !.head = original_branch,
                                  !.landed = @ \cup {parent_id},
                                  !.campaigns = @ \ {parent_id}]
              [] OTHER -> [noted EXCEPT !.head = original_branch]

\* EventBus._on_campaign_done
_on_campaign_done(s, parent_id) ==
    IF ~Has(s, parent_id) THEN Ok(s)
    ELSE LET parent == get(s, parent_id)
             s0 == _finalize_campaign_branch(s, parent_id, parent)
             aggregated == [parent EXCEPT !.agent_outputs.dev = Aggregated]
         IN IF settings.reviewer_enabled /\ settings.review_mode = PER_CAMPAIGN
            THEN Then(update_status(update(s0, parent_id, aggregated), parent_id, REVIEW),
                      LAMBDA s1 : _spawn_reviewer(s1, parent_id, aggregated))
            ELSE IF settings.qa_enabled /\ settings.qa_mode = PER_CAMPAIGN
            THEN Then(update_status(update(s0, parent_id, aggregated), parent_id, TESTING),
                      LAMBDA s1 : _spawn_qa(s1, parent_id, aggregated))
            ELSE Then(update_status(s0, parent_id, REVIEW), LAMBDA s1 :
                      update_status(s1, parent_id, DONE))

\* ----------------------------------------------- EventBus: role handlers
\* the child-creation loop making each child wait for the task created last
\* in the store, whichever it is
RECURSIVE create_children_after_latest(_, _, _, _, _)
create_children_after_latest(s, task_id, plan, i, child_ids) ==
    IF i > Len(plan) THEN Ret(s, child_ids)
    ELSE LET id == s.nextTask
             s1 == create([s EXCEPT !.nextTask = @ + 1], id, Task(task_id, {id - 1}))
         IN Then(update_status(s1, id, PLANNED), LAMBDA s2 :
                 create_children_after_latest(s2, task_id, plan, i + 1, Append(child_ids, id)))

\* the child-creation loop of _on_pm_complete from plan position i;
\* child_ids are the ids created so far
RECURSIVE create_children(_, _, _, _, _)
create_children(s, task_id, plan, i, child_ids) ==
    IF i > Len(plan) THEN Ret(s, child_ids)
    ELSE LET deps == IF settings.parallel_enabled
                     THEN {child_ids[idx + 1] :
                             idx \in {d \in plan[i].depends_on : d < Len(child_ids)}}
                     ELSE IF child_ids = <<>> THEN {}
                     ELSE {child_ids[Len(child_ids)]}
             id == s.nextTask
             s1 == create([s EXCEPT !.nextTask = @ + 1], id, Task(task_id, deps))
         IN Then(update_status(s1, id, PLANNED), LAMBDA s2 :
                 create_children(s2, task_id, plan, i + 1, Append(child_ids, id)))

\* _on_pm_complete starting the first sub-task as soon as the plan is stored,
\* without a checkpoint
_on_pm_complete_unchecked(s, msg) ==
    LET task_id == msg.task_id
        plan == parse_pm_output(msg)
    IN IF plan = <<>> THEN on_task_failed(s, task_id)
       ELSE IF ~Has(s, task_id) THEN Ok(s)
       ELSE LET parent == [get(s, task_id) EXCEPT !.agent_outputs.pm = Output(msg)]
                s1 == update(s, task_id, parent)
            IN ThenR(create_children(s1, task_id, plan, 1, <<>>), LAMBDA s2, child_ids :
                     Then(dispatch_next(
                              update(s2, task_id, [parent EXCEPT !.subtask_ids = child_ids]),
                              task_id),
                          LAMBDA s3 : Ok(s3)))

\* EventBus._on_pm_complete; plans notes the "subtasks" list of the PM and the
\* children this handler created from it
_on_pm_complete(s, msg) ==
    LET task_id == msg.task_id
        plan == parse_pm_output(msg)
    IN IF plan = <<>> THEN on_task_failed(s, task_id)
       ELSE IF ~Has(s, task_id) THEN Ok(s)
       ELSE LET parent == [get(s, task_id) EXCEPT !.agent_outputs.pm = Output(msg)]
                s1 == update(s, task_id, parent)
            IN ThenR(create_children(s1, task_id, plan, 1, <<>>), LAMBDA s2, child_ids :
                     checkpoint_create(
                         update([s2 EXCEPT !.plans = @ \cup
                                    {[raw |-> msg.plan, child_ids |-> child_ids]}],
                                task_id, [parent EXCEPT !.subtask_ids = child_ids]),
                         task_id, "pm"))

\* EventBus._on_architect_complete
_on_architect_complete(s, msg) ==
    LET task_id == msg.task_id IN
    IF ~Has(s, task_id) THEN Ok(s)
    ELSE checkpoint_create(
             update(s, task_id, [get(s, task_id) EXCEPT !.agent_outputs.architect = Output(msg)]),
             task_id, "architect")

\* EventBus._on_dev_complete
_on_dev_complete(s, msg) ==
    LET task_id == msg.task_id IN
    IF ~Has(s, task_id) THEN Ok(s)
    ELSE LET task == [get(s, task_id) EXCEPT !.agent_outputs.dev = Output(msg)]
             s1 == update(s, task_id, task)
         IN IF /\ settings.reviewer_enabled
               /\ settings.review_mode = PER_SUBTASK
               /\ task.parent_id # NoTask
            THEN Then(update_status(s1, task_id, REVIEW), LAMBDA s2 :
                      _spawn_reviewer(s2, task_id, task))
            ELSE IF /\ settings.qa_enabled
                    /\ settings.qa_mode = PER_SUBTASK
                    /\ task.parent_id # NoTask
            THEN Then(update_status(s1, task_id, TESTING), LAMBDA s2 :
                      _spawn_qa(s2, task_id, task))
            ELSE Then(on_task_complete(s1, task_id), LAMBDA s2 :
                      _handle_subtask_done(s2, task_id, task))

\* _reviewer_reject retrying once more than the configured limit allows
_reviewer_reject_once_more(s, task_id, task, msg) ==
    LET max_retries == settings.reviewer_max_retries
        retry_count == task.reviewer_retry_count
    IN IF retry_count <= max_retries
       THEN LET s1 == update(s, task_id,
                        [task EXCEPT !.agent_outputs.reviewer_feedback = Output(msg),
                                     !.reviewer_retry_count = retry_count + 1])
            IN Then(update_status(s1, task_id, REJECTED), LAMBDA s2 :
               Then(update_status(s2, task_id, PLANNED), LAMBDA s3 :
                    IF Has(s3, task_id)
                    THEN Then(dispatch_single(s3, task_id, get(s3, task_id)), LAMBDA s4 : Ok(s4))
                    ELSE Ok(s3)))
       ELSE checkpoint_create(s, task_id, "reviewer")

\* EventBus._reviewer_reject: retry DEV or escalate to a checkpoint
_reviewer_reject(s, task_id, task, msg) ==
    LET max_retries == settings.reviewer_max_retries
        retry_count == task.reviewer_retry_count
    IN IF retry_count < max_retries
       THEN LET s1 == update(s, task_id,
                        [task EXCEPT !.agent_outputs.reviewer_feedback = Output(msg),
                                     !.reviewer_retry_count = retry_count + 1])
            IN Then(update_status(s1, task_id, REJECTED), LAMBDA s2 :
               Then(update_status(s2, task_id, PLANNED), LAMBDA s3 :
                    IF Has(s3, task_id)
                    THEN Then(dispatch_single(s3, task_id, get(s3, task_id)), LAMBDA s4 : Ok(s4))
                    ELSE Ok(s3)))
       ELSE checkpoint_create(s, task_id, "reviewer")

\* EventBus._reviewer_security_checkpoint
_reviewer_security_checkpoint(s, task_id) == checkpoint_create(s, task_id, "reviewer")

\* _on_reviewer_complete looking at the verdict before the security concerns
_on_reviewer_complete_verdict_first(s, msg) ==
    LET task_id == msg.task_id IN
    IF ~Has(s, task_id) THEN Ok(s)
    ELSE LET task == [get(s, task_id) EXCEPT !.agent_outputs.reviewer = Output(msg)]
             s1 == update(s, task_id, task)
             review == parse_reviewer_output(msg)
         IN IF review.verdict = "None" \/ review.verdict = "approve"
            THEN _reviewer_approve(s1, task_id, task)
            ELSE IF review.security_concerns
            THEN _reviewer_security_checkpoint(s1, task_id)
            ELSE _reviewer_reject(s1, task_id, task, msg)

\* EventBus._on_reviewer_complete
_on_reviewer_complete(s, msg) ==
    LET task_id == msg.task_id IN
    IF ~Has(s, task_id) THEN Ok(s)
    ELSE LET task == [get(s, task_id) EXCEPT !.agent_outputs.reviewer = Output(msg)]
             s1 == update(s, task_id, task)
             review == parse_reviewer_output(msg)
         IN IF review.verdict # "None" /\ review.security_concerns
            THEN _reviewer_security_checkpoint(s1, task_id)
            ELSE IF review.verdict = "None" \/ review.verdict = "approve"
            THEN _reviewer_approve(s1, task_id, task)
            ELSE _reviewer_reject(s1, task_id, task, msg)

\* EventBus._qa_reject: retry DEV or escalate to a checkpoint
_qa_reject(s, task_id, task, msg) ==
    LET max_retries == settings.qa_max_retries
        retry_count == task.qa_retry_count
    IN IF retry_count < max_retries
       THEN LET s1 == update(s, task_id,
                        [task EXCEPT !.agent_outputs.qa_feedback = Output(msg),
                                     !.qa_retry_count = retry_count + 1])
            IN Then(update_status(s1, task_id, REJECTED), LAMBDA s2 :
               Then(update_status(s2, task_id, PLANNED), LAMBDA s3 :
                    IF Has(s3, task_id)
                    THEN Then(dispatch_single(s3, task_id, get(s3, task_id)), LAMBDA s4 : Ok(s4))
                    ELSE Ok(s3)))
       ELSE checkpoint_create(s, task_id, "qa")

\* EventBus._on_qa_complete
_on_qa_complete(s, msg) ==
    LET task_id == msg.task_id IN
    IF ~Has(s, task_id) THEN Ok(s)
    ELSE LET task == [get(s, task_id) EXCEPT !.agent_outputs.qa = Output(msg)]
             s1 == update(s, task_id, task)
             qa_result == parse_qa_output(msg)
         IN IF qa_result.verdict = "None" \/ qa_result.verdict = "pass"
            THEN _qa_approve(s1, task_id)
            ELSE _qa_reject(s1, task_id, task, msg)

\* EventBus._cleanup_agent
_cleanup_agent(s, agent_id) == remove_agent(s, agent_id)

\* EventBus._on_task_complete: the role is the stored AgentInfo's, DEV when
\* there is none; the agent is cleaned up when the role handler returns
_on_task_complete(s, msg) ==
    LET agent_role == IF msg.agent_id \in DOMAIN s.agents
                      THEN s.agents[msg.agent_id].role ELSE DEV
        r == CASE agent_role = PM -> _on_pm_complete(s, msg)
               [] agent_role = ARCHITECT -> _on_architect_complete(s, msg)
               [] agent_role = REVIEWER -> _on_reviewer_complete(s, msg)
               [] agent_role = QA -> _on_qa_complete(s, msg)
               [] OTHER -> _on_dev_complete(s, msg)
    IN Then(r, LAMBDA s1 : Ok(_cleanup_agent(s1, msg.agent_id)))

\* the cascade onto the parent when the agent_failed checkpoint cannot be
\* created
fail_parent(s, parent_id) ==
    IF Has(s, parent_id) /\ get(s, parent_id).status = ACTIVE
    THEN Then(update_status(s, parent_id, REVIEW), LAMBDA s1 :
              update_status(s1, parent_id, REJECTED))
    ELSE Ok(s)

\* EventBus._on_task_failed
_on_task_failed(s, msg) ==
    Then(on_task_failed(s, msg.task_id), LAMBDA s1 :
        LET task == get(s1, msg.task_id)
            s2 == IF task.branch_name THEN _cleanup_worktree(s1, msg.task_id) ELSE s1
            r == IF /\ task.parent_id # NoTask
                    /\ Has(s2, task.parent_id)
                    /\ get(s2, task.parent_id).status = ACTIVE
                 THEN Catch(checkpoint_create(s2, task.parent_id, "agent_failed"),
                            LAMBDA s3 : fail_parent(s3, task.parent_id))
                 ELSE Ok(s2)
        IN Then(r, LAMBDA s4 : Ok(_cleanup_agent(s4, msg.agent_id))))

\* ------------------------------------------- EventBus: checkpoint hooks
\* GitOps.get_current_branch: the original branch, or a campaign's working
\* branch (head is NoTask for the original branch, else the campaign's id)
get_current_branch(s) == [by |-> s.head, v |-> IF s.head = NoTask THEN "main" ELSE "campaign"]

\* GitOps.ensure_working_branch on legatus/campaign-<parent_id>
ensure_working_branch(s, parent_id) ==
    [s EXCEPT !.campaigns = @ \cup {parent_id}, !.head = parent_id]

\* _dispatch_initial taking the parallel path whatever the mode
_dispatch_initial_parallel(s, parent_id) ==
    Ok(dispatch_all_ready(ensure_working_branch(s, parent_id), parent_id).s)

\* EventBus._dispatch_initial in parallel mode from the write of the parent
\* it read, with _original_branch set (found: there was a parent to read)
_dispatch_initial_written(s, parent_id, found, parent) ==
    Ok(dispatch_all_ready(
           ensure_working_branch(IF found THEN update(s, parent_id, parent) ELSE s,
                                 parent_id),
           parent_id).s)

\* EventBus._dispatch_initial
_dispatch_initial(s, parent_id) ==
    IF settings.parallel_enabled
    THEN _dispatch_initial_written(s, parent_id, Has(s, parent_id),
             IF Has(s, parent_id)
             THEN [get(s, parent_id) EXCEPT
                      !.agent_outputs._original_branch = get_current_branch(s)]
             ELSE NoTask)
    ELSE Then(dispatch_next(s, parent_id), LAMBDA s1 : Ok(s1))

\* EventBus.on_checkpoint_approved
on_checkpoint_approved(s, task_id, source_role) ==
    IF ~Has(s, task_id) THEN Ok(s)
    ELSE LET task == get(s, task_id) IN
    IF source_role = "merge_conflict"
    THEN LET s1 == [s EXCEPT !.merged = IF s.merge.commit_ok THEN @ \cup {task_id} ELSE @]
             s2 == IF task.branch_name THEN _cleanup_worktree(s1, task_id) ELSE s1
         IN IF task.parent_id # NoTask
            THEN ThenR(on_subtask_complete(s2, task.parent_id), LAMBDA s3, result :
                       IF result = "all_done" THEN _on_campaign_done(s3, task.parent_id)
                       ELSE Ok(s3))
            ELSE Ok(s2)
    ELSE IF source_role = "qa"
    THEN Then(update_status(s, task_id, TESTING), LAMBDA s1 :
         Then(update_status(s1, task_id, DONE), LAMBDA s2 :
              IF Has(s2, task_id) THEN _handle_subtask_done(s2, task_id, get(s2, task_id))
              ELSE Ok(s2)))
    ELSE IF source_role = "agent_failed"
    THEN ThenR(on_subtask_complete(s, task_id), LAMBDA s1, result :
               IF result = "all_done" THEN _on_campaign_done(s1, task_id) ELSE Ok(s1))
    ELSE IF source_role = "reviewer"
    THEN IF settings.qa_enabled /\
            ((settings.qa_mode = PER_SUBTASK /\ task.parent_id # NoTask)
             \/ (settings.qa_mode = PER_CAMPAIGN /\ task.parent_id = NoTask))
         THEN Then(update_status(s, task_id, TESTING), LAMBDA s1 :
                   IF Has(s1, task_id) THEN _spawn_qa(s1, task_id, get(s1, task_id))
                   ELSE Ok(s1))
         ELSE Then(update_status(s, task_id, REVIEW), LAMBDA s1 :
              Then(update_status(s1, task_id, DONE), LAMBDA s2 :
                   IF Has(s2, task_id) THEN _handle_subtask_done(s2, task_id, get(s2, task_id))
                   ELSE Ok(s2)))
    ELSE IF task.subtask_ids = <<>> THEN Ok(s)
    ELSE IF source_role = "pm" /\ settings.architect_review
    THEN Try(spawn_agent(s, task_id, ARCHITECT),
             LAMBDA s1, agent_id : Ok(set_agent_info(s1, agent_id, ARCHITECT, task_id)),
             LAMBDA s1 : _dispatch_initial(s1, task_id))
    ELSE _dispatch_initial(s, task_id)

\* the cascade of a rejected reviewer or QA checkpoint onto the parent
cascade_parent(s, task) ==
    IF /\ task.parent_id # NoTask
       /\ Has(s, task.parent_id)
       /\ get(s, task.parent_id).status = ACTIVE
    THEN Then(update_status(s, task.parent_id, REVIEW), LAMBDA s1 :
              update_status(s1, task.parent_id, REJECTED))
    ELSE Ok(s)

\* EventBus.on_checkpoint_rejected
on_checkpoint_rejected(s, task_id, source_role) ==
    IF ~Has(s, task_id) THEN Ok(s)
    ELSE LET task == get(s, task_id) IN
    IF source_role = "merge_conflict"
    THEN LET s1 == IF task.branch_name THEN _cleanup_worktree(s, task_id) ELSE s IN
         IF task.parent_id # NoTask
         THEN Then(on_subtask_complete(s1, task.parent_id), LAMBDA s2 : Ok(s2))
         ELSE Ok(s1)
    ELSE IF source_role = "qa"
    THEN Then(update_status(s, task_id, TESTING), LAMBDA s1 :
         Then(update_status(s1, task_id, REJECTED), LAMBDA s2 :
              cascade_parent(s2, task)))
    ELSE IF source_role = "agent_failed"
    THEN Then(update_status(s, task_id, REVIEW), LAMBDA s1 :
              update_status(s1, task_id, REJECTED))
    ELSE IF source_role = "reviewer"
    THEN Then(update_status(s, task_id, REVIEW), LAMBDA s1 :
         Then(update_status(s1, task_id, REJECTED), LAMBDA s2 :
              cascade_parent(s2, task)))
    ELSE Then(IF task.subtask_ids # <<>> THEN cleanup_subtasks(s, task_id) ELSE Ok(s),
              LAMBDA s1 :
                IF task.status = ACTIVE
                THEN Then(update_status(s1, task_id, REVIEW), LAMBDA s2 :
                          update_status(s2, task_id, REJECTED))
                ELSE Ok(s1))

\* ------------------------------------------------ EventBus: the reactor
\* EventBus._update_agent_status for a TASK_COMPLETE / TASK_FAILED message
_update_agent_status(s, msg) ==
    IF msg.agent_id \in DOMAIN s.agents
    THEN [s EXCEPT !.agents[msg.agent_id].status = "stopping"]
    ELSE s

\* EventBus._handle_agent_message: whatever the handler raises is logged
\* and swallowed; the writes made before it stay
_handle_agent_message(s, msg) ==
    LET s1 == _update_agent_status(s, msg) IN
    IF msg.type = TASK_COMPLETE THEN _on_task_complete(s1, msg)
    ELSE _on_task_failed(s1, msg)

\* --------------------------------------------------------- HTTP handlers
\* routers/tasks.py create_task (TaskManager.create_task, then the spawn)
create_task(s, direct) ==
    LET id == s.nextTask
        role == IF direct THEN DEV ELSE PM
        s1 == create([s EXCEPT !.nextTask = @ + 1], id, Task(NoTask, {}))
    IN Then(update_status(s1, id, PLANNED), LAMBDA s2 :
       ThenR(spawn_agent(s2, id, role), LAMBDA s3, agent_id :
       Then(transition(set_agent_info(s3, agent_id, role, id), id, ACTIVE), LAMBDA s4 :
            Ok(update(s4, id, [get(s4, id) EXCEPT !.assigned_to = agent_id])))))

\* routers/checkpoints.py approve_checkpoint: the hook is called with the
\* task id alone, so its source_role is the default None
approve_checkpoint(s, checkpoint_id) ==
    ThenR(approve(s, checkpoint_id), LAMBDA s1, cp :
          IF cp = "None" THEN Raise(s1)
          ELSE on_checkpoint_approved(s1,
                                      s1.cps[checkpoint_id].task_id, NoRole))

\* routers/checkpoints.py reject_checkpoint
reject_checkpoint(s, checkpoint_id) ==
    ThenR(reject(s, checkpoint_id), LAMBDA s1, cp :
          IF cp = "None" THEN Raise(s1)
          ELSE on_checkpoint_rejected(s1,
                                      s1.cps[checkpoint_id].task_id, NoRole))

\* ------------------------------------------------------ the state machine
\* the configurations of a run: at most one of the two gates is enabled, the
\* per-subtask reviewer runs in sequential campaigns, and a disabled gate keeps
\* its default mode and retry limit (models/config.py AgentConfig)
Settings ==
    {c \in [parallel_enabled : BOOLEAN, architect_review : {TRUE},
            reviewer_enabled : BOOLEAN, review_mode : {PER_SUBTASK, PER_CAMPAIGN},
            reviewer_max_retries : 0..MaxRetries,
            qa_enabled : BOOLEAN, qa_mode : {PER_SUBTASK, PER_CAMPAIGN},
            qa_max_retries : 0..MaxRetries] :
        /\ ~(c.reviewer_enabled /\ c.qa_enabled)
        /\ c.parallel_enabled => ~(c.reviewer_enabled /\ c.review_mode = PER_SUBTASK)
        /\ ~c.reviewer_enabled => (c.review_mode = PER_SUBTASK /\ c.reviewer_max_retries = MaxRetries)
        /\ ~c.qa_enabled => (c.qa_mode = PER_SUBTASK /\ c.qa_max_retries = MaxRetries)}

\* a parallel campaign with the per-subtask Reviewer
ReviewedSettings ==
    {[parallel_enabled |-> TRUE, architect_review |-> TRUE,
      reviewer_enabled |-> TRUE, review_mode |-> PER_SUBTASK,
      reviewer_max_retries |-> MaxRetries,
      qa_enabled |-> FALSE, qa_mode |-> PER_SUBTASK, qa_max_retries |-> MaxRetries]}

\* what docker and git answer during one handler
NoMerge == [result |-> "success", conflict_files |-> {}, resolve_ok |-> TRUE, commit_ok |-> TRUE]
MergeResults ==
    {[NoMerge EXCEPT !.result = "raise"],
     [NoMerge EXCEPT !.result = "failed"],
     [NoMerge EXCEPT !.result = "failed", !.conflict_files = {"src/main.py"}],
     [NoMerge EXCEPT !.result = "failed", !.conflict_files = {".coverage", "src/main.py"}],
     [NoMerge EXCEPT !.result = "failed", !.conflict_files = {".coverage"}],
     [NoMerge EXCEPT !.result = "failed", !.conflict_files = {".coverage"}, !.resolve_ok = FALSE],
     [NoMerge EXCEPT !.result = "failed", !.conflict_files = {".coverage"}, !.commit_ok = FALSE]}
Quiet == [spawn_ok |-> <<>>, git_ok |-> TRUE, merge |-> NoMerge, final |-> "success"]
\* a handler that meets a fault meets faults of one kind: docker refusing
\* containers, git refusing a worktree, or a merge that does not go through
Faulty ==
    {[Quiet EXCEPT !.spawn_ok = f] : f \in [1..MaxSub -> BOOLEAN] \ {[i \in 1..MaxSub |-> TRUE]}}
        \cup (IF settings.parallel_enabled
              THEN {[Quiet EXCEPT !.git_ok = FALSE]}
                    \cup {[Quiet EXCEPT !.merge = m] : m \in MergeResults}
                    \cup {[Quiet EXCEPT !.final = f] : f \in {"conflict", "failed", "raise"}}
              ELSE {})
Oracles == {Quiet} \cup (IF ids.incidents < MaxIncidents THEN Faulty ELSE {})
Incidents(o, other) == ids.incidents + (IF o = Quiet THEN 0 ELSE 1) + (IF other THEN 1 ELSE 0)

\* the raw "subtasks" lists a PM agent may emit: at most MaxSub well-formed
\* entries and at most one more entry, which may be malformed
RawEntries ==
    {[ok |-> FALSE, depends_on |-> {}]}
        \cup {[ok |-> TRUE, depends_on |-> d] : d \in {{}} \cup {{i} : i \in 0..MaxSub}}
RawPlans ==
    {p \in UNION {[1..n -> RawEntries] : n \in 0..(MaxSub + 1)} :
        Cardinality({k \in 1..Len(p) : p[k].ok}) <= MaxSub}

\* the final messages an agent of a role may publish
Messages(agent_id) ==
    LET a == running[agent_id]
        base == [type |-> TASK_COMPLETE, task_id |-> a.task_id, agent_id |-> agent_id,
                 v |-> "ok", sec |-> FALSE, plan |-> <<>>]
    IN {[base EXCEPT !.type = TASK_FAILED, !.v = "error"]} \cup
       CASE a.role = PM -> {[base EXCEPT !.plan = p] : p \in RawPlans}
         [] a.role = ARCHITECT -> {[base EXCEPT !.v = v] : v \in {"ok", "garbage"}}
         [] a.role = REVIEWER ->
                {[base EXCEPT !.v = v, !.sec = x] : v \in {"approve", "reject"}, x \in BOOLEAN}
                    \cup {[base EXCEPT !.v = "garbage"]}
         [] a.role = QA -> {[base EXCEPT !.v = v] : v \in {"pass", "fail", "garbage"}}
         [] OTHER -> {base}

\* the store a handler starts on
Store(o) ==
    [tasks |-> tasks, agents |-> agents, cps |-> cps, pending |-> pending,
     running |-> running, worktrees |-> git.worktrees, branches |-> git.branches,
     merged |-> git.merged, nextTask |-> ids.nextTask, nextAgent |-> ids.nextAgent,
     nextCp |-> ids.nextCp, spawn_ok |-> o.spawn_ok, git_ok |-> o.git_ok,
     merge |-> o.merge, merges |-> {}, finalised |-> mid.finalised, approvals |-> mid.approvals, peak |-> PeakOf(agents),
     campaigns |-> git.campaigns, landed |-> git.landed, tried |-> git.tried,
     head |-> git.head,
     final |-> o.final, landings |-> {}, unspawned |-> {}, answers |-> {}, dispatches |-> {}, plans |-> {}, stale |-> {},
     depsBroken |-> {}, ctx |-> "handler"]

\* the store a handler leaves, whether it returned or raised; the containers
\* in gone have exited
Written(r, incidents, gone, entry) ==
    /\ r.s.nextAgent <= (IF settings \in ReviewedSettings THEN MaxReviewedAgents
                          ELSE MaxAgents) + 1
    /\ incidents <= MaxIncidents
    /\ tasks' = r.s.tasks
    /\ agents' = r.s.agents
    /\ cps' = r.s.cps
    /\ pending' = r.s.pending
    /\ git' = [worktrees |-> r.s.worktrees, branches |-> r.s.branches, merged |-> r.s.merged,
               campaigns |-> r.s.campaigns, landed |-> r.s.landed, tried |-> r.s.tried,
               head |-> r.s.head]
    /\ ids' = [nextTask |-> r.s.nextTask, nextAgent |-> r.s.nextAgent, nextCp |-> r.s.nextCp,
               incidents |-> incidents]
    /\ mid' = [peak |-> r.s.peak, depsBroken |-> r.s.depsBroken, finalised |-> r.s.finalised,
               merges |-> r.s.merges, landings |-> r.s.landings, approvals |-> r.s.approvals,
               unspawned |-> r.s.unspawned, answers |-> r.s.answers,
               dispatches |-> r.s.dispatches, plans |-> r.s.plans,
               stale |-> r.s.stale]
    /\ running' = [a \in DOMAIN r.s.running \ gone |-> r.s.running[a]]
    /\ last' = [entry EXCEPT !.raised = r.ex]
    /\ UNCHANGED settings

\* no WebSocket client has connected and the reactor loop runs
NoClients ==
    [connections |-> <<>>, open |-> {}, waiting |-> {}, met |-> {}, pc |-> "idle", i |-> 0,
     cur |-> 0, disconnected |-> <<>>, listening |-> TRUE]

\* no request is suspended
Idle == [pc |-> "idle", cp |-> 0, parent_id |-> NoTask, parent |-> NoTask]

\* a handler that runs from its first line to its last and leaves the paused
\* flag alone
Commit(r, incidents, gone, entry) ==
    /\ Written(r, incidents, gone, entry)
    /\ UNCHANGED <<paused, co, ws>>

NoMsg == [type |-> "none", task_id |-> NoTask, agent_id |-> 0, v |-> "none", sec |-> FALSE,
          plan |-> <<>>]
NoSeen == [raised |-> FALSE, cp_status |-> "none", indexed |-> FALSE, task_status |-> "none"]
Last(kind, msg, cp, was, seen, raised) ==
    [kind |-> kind, type |-> msg.type, task_id |-> msg.task_id, agent_id |-> msg.agent_id,
     v |-> msg.v, sec |-> msg.sec, cp |-> cp, was |-> was, seen |-> seen, raised |-> raised]

Init ==
    /\ settings \in Settings
    /\ tasks = <<>>
    /\ agents = <<>>
    /\ cps = <<>>
    /\ pending = {}
    /\ running = <<>>
    /\ git = [worktrees |-> {}, branches |-> {}, merged |-> {}, campaigns |-> {}, landed |-> {},
              tried |-> {}, head |-> NoTask]
    /\ delivered = {}
    /\ ids = [nextTask |-> 1, nextAgent |-> 1, nextCp |-> 1, incidents |-> 0]
    /\ last = Last("init", NoMsg, 0, "none", NoSeen, FALSE)
    /\ mid = [peak |-> 0, depsBroken |-> {}, finalised |-> {}, merges |-> {}, landings |-> {},
              approvals |-> {}, unspawned |-> {}, answers |-> {},
              dispatches |-> {}, plans |-> {}, stale |-> {}]
    /\ paused = FALSE
    /\ co = Idle
    /\ ws = NoClients

Roots == {t \in DOMAIN tasks : tasks[t].parent_id = NoTask}

\* POST /tasks
CreateTask ==
    /\ Cardinality(Roots) < MaxRoots
    /\ \E direct \in BOOLEAN, o \in {x \in Oracles : [x EXCEPT !.spawn_ok = <<>>] = Quiet} :
        Commit(create_task(Store(o), direct), Incidents(o, FALSE), {},
               Last("create_task", NoMsg, 0, "none", NoSeen, FALSE))
    /\ UNCHANGED delivered

\* the try block of _handle_agent_message on the final message of an agent
\* container
Received ==
    \E agent_id \in DOMAIN running :
    \E msg \in Messages(agent_id) :
    \E o \in IF running[agent_id].role = PM THEN {Quiet} ELSE Oracles :
    \E twice \in BOOLEAN :
        /\ Written(_handle_agent_message(Store(o), msg), Incidents(o, twice), {agent_id},
                   Last("message", msg, 0, "none", NoSeen, FALSE))
        /\ delivered' = IF twice THEN delivered \cup {msg} ELSE delivered

\* the try block of _handle_agent_message on the second copy of a message
ReceivedAgain ==
    \E msg \in delivered :
    \E o \in Oracles :
        /\ Written(_handle_agent_message(Store(o), msg), Incidents(o, FALSE), {},
                   Last("redeliver", msg, 0, "none", NoSeen, FALSE))
        /\ delivered' = delivered \ {msg}

\* an agent container publishes its final message and the reactor handles it;
\* no WebSocket client is connected
AgentMessage == Received /\ UNCHANGED <<paused, co, ws>>

\* the bus delivers its second copy of a handled message
Redeliver == ReceivedAgain /\ UNCHANGED <<paused, co, ws>>

\* what the caller of approve / reject sees when the manager returns
Seen(r, cp) ==
    [raised |-> r.ex, cp_status |-> r.s.cps[cp].status, indexed |-> cp \in r.s.pending,
     task_status |-> r.s.tasks[r.s.cps[cp].task_id].status]

\* POST /checkpoints/{id}/approve
ApproveCheckpoint ==
    \E cp \in DOMAIN cps :
    \E o \in Oracles :
        /\ Commit(approve_checkpoint(Store(o), cp), Incidents(o, cps[cp].status # PENDING), {},
                  Last("approve", NoMsg, cp, cps[cp].status, Seen(approve(Store(o), cp), cp),
                       FALSE))
        /\ UNCHANGED delivered

\* POST /checkpoints/{id}/reject
RejectCheckpoint ==
    \E cp \in DOMAIN cps :
    \E o \in Oracles :
        /\ Commit(reject_checkpoint(Store(o), cp), Incidents(o, cps[cp].status # PENDING), {},
                  Last("reject", NoMsg, cp, cps[cp].status, Seen(reject(Store(o), cp), cp),
                       FALSE))
        /\ UNCHANGED delivered

Next ==
    \/ CreateTask
    \/ AgentMessage
    \/ Redeliver
    \/ ApproveCheckpoint
    \/ RejectCheckpoint

Spec == Init /\ [][Next]_vars

\* ------------------------------------------------------------ properties
Family(root) == {root} \cup {t \in DOMAIN tasks : tasks[t].parent_id = root}

\* C1 (I3): in every reachable state every PENDING checkpoint refers to a
\* task whose status is BLOCKED, whatever checkpoint the reactor created
C1_PendingMeansBlocked ==
    \A c \in DOMAIN cps :
        cps[c].status = PENDING => tasks[cps[c].task_id].status = BLOCKED

\* C2 (P1): every consecutive pair of statuses in every task's history,
\* starting from CREATED, is a pair of the valid-transition table
C2_HistoryValid ==
    \A t \in DOMAIN tasks :
        /\ tasks[t].history[1] = CREATED
        /\ tasks[t].history[Len(tasks[t].history)] = tasks[t].status
        /\ \A i \in 1..(Len(tasks[t].history) - 1) :
              tasks[t].history[i + 1] \in VALID_TRANSITIONS(tasks[t].history[i])
C2_Witness ==
    \E t \in DOMAIN tasks :
        /\ Len(tasks[t].history) >= 6
        /\ last.raised

\* the pairs the lifecycle of the specification accepts
AcceptedPairs ==
    {<<CREATED, PLANNED>>, <<PLANNED, ACTIVE>>, <<ACTIVE, REVIEW>>, <<ACTIVE, BLOCKED>>,
     <<ACTIVE, TESTING>>, <<BLOCKED, ACTIVE>>, <<REVIEW, DONE>>, <<REVIEW, REJECTED>>,
     <<REVIEW, TESTING>>, <<TESTING, DONE>>, <<TESTING, REJECTED>>, <<REJECTED, PLANNED>>}

\* C3: on every stored task update_status(id, new) succeeds exactly for the
\* twelve accepted pairs, appending one history event, and otherwise raises
\* and leaves the stored task as it was
C3_UpdateStatusTable ==
    \A t \in DOMAIN tasks : \A new \in TaskStatus :
        LET r == update_status(Store(Quiet), t, new) IN
        IF <<tasks[t].status, new>> \in AcceptedPairs
        THEN /\ ~r.ex
             /\ r.s.tasks[t].status = new
             /\ r.s.tasks[t].history = Append(tasks[t].history, new)
        ELSE /\ r.ex
             /\ r.s.tasks = tasks

\* C4: every root task that is neither DONE nor REJECTED has an AgentRecord
\* or a PENDING checkpoint on itself or on one of its sub-tasks
C4_NoDeadlock ==
    \A root \in Roots :
        tasks[root].status \notin {DONE, REJECTED} =>
            \/ \E a \in DOMAIN agents : agents[a].task_id \in Family(root)
            \/ \E c \in DOMAIN cps :
                  cps[c].status = PENDING /\ cps[c].task_id \in Family(root)

\* C5: handling the second delivery of a TASK_COMPLETE message leaves the
\* tasks, the agent records and the checkpoints unchanged and spawns no agent
C5_DuplicateCompleteIsNoOp ==
    [][(delivered' # delivered /\ delivered' \subseteq delivered /\ last'.type = TASK_COMPLETE)
          => (tasks' = tasks /\ agents' = agents /\ cps' = cps /\ pending' = pending
              /\ running' = running)]_vars

\* C6 (I1): at every point, also inside a handler, at most one AgentRecord
\* refers to any one task
C6_OneRecordPerTask == mid.peak <= 1 /\ PeakOf(agents) <= 1

\* C7 (P3) as stated: after every write to the store, also inside
\* cleanup_subtasks, every running sub-task has all its dependencies DONE
C7_DepsDoneEverywhere == DepsDone(tasks) /\ mid.depsBroken = {}

\* C7 (P3), amended: every running sub-task has all its dependencies DONE
\* after every write to the store other than those cleanup_subtasks makes
\* while it walks the never-started children of a failed campaign to REJECTED
C7_DepsDoneOutsideCleanup == DepsDone(tasks) /\ mid.depsBroken \subseteq {"cleanup_subtasks"}
C7_Witness == mid.depsBroken = {"cleanup_subtasks"}

\* C8 (P5): whenever on_subtask_complete reports all_done, every sub-task of
\* the parent is DONE
C8_AllDoneMeansDone == \A f \in mid.finalised : f[2] \subseteq {DONE}

\* C9 (P4): the handler of an agent's final message removes that agent's
\* record, whether it returns or raises
C9_HandlerRemovesRecord ==
    [][\A a \in DOMAIN running \ DOMAIN running' : a \notin DOMAIN agents']_vars

\* C10 (P2): right after approve or reject of a PENDING checkpoint returns,
\* the checkpoint is out of the pending index, is APPROVED respectively
\* REJECTED, and its task is ACTIVE
C10_ResolvedMeansActive ==
    (last.kind \in {"approve", "reject"} /\ last.was = PENDING) =>
        /\ ~last.seen.raised
        /\ ~last.seen.indexed
        /\ last.seen.cp_status = (IF last.kind = "approve" THEN APPROVED ELSE REJECTED)
        /\ last.seen.task_status = ACTIVE

\* the hook of a resolved checkpoint when it is given the source_role the
\* checkpoint was created with
routed_approve(s, checkpoint_id) ==
    ThenR(approve(s, checkpoint_id), LAMBDA s1, cp :
          IF cp = "None" THEN Raise(s1)
          ELSE on_checkpoint_approved(s1, s1.cps[checkpoint_id].task_id,
                                      s1.cps[checkpoint_id].source_role))
routed_reject(s, checkpoint_id) ==
    ThenR(reject(s, checkpoint_id), LAMBDA s1, cp :
          IF cp = "None" THEN Raise(s1)
          ELSE on_checkpoint_rejected(s1, s1.cps[checkpoint_id].task_id,
                                      s1.cps[checkpoint_id].source_role))
SameOutcome(r) ==
    /\ tasks' = r.s.tasks
    /\ agents' = r.s.agents
    /\ cps' = r.s.cps
    /\ DOMAIN running' = DOMAIN r.s.running

\* C11: resolving a PENDING checkpoint through the HTTP approve or reject
\* endpoint leaves the store as the hook leaves it when it is called with the
\* task id and the source_role recorded on the checkpoint
C11_HookGetsSourceRole ==
    [][(last'.kind \in {"approve", "reject"} /\ last'.was = PENDING) =>
          \E o \in Oracles :
              IF last'.kind = "approve"
              THEN SameOutcome(routed_approve(Store(o), last'.cp))
              ELSE SameOutcome(routed_reject(Store(o), last'.cp))]_vars

\* C12: after the reactor has handled the TASK_FAILED message of a running
\* agent, whatever its role, the agent's task is REJECTED
C12_FailedMeansRejected ==
    (last.kind = "message" /\ last.type = TASK_FAILED) =>
        tasks[last.task_id].status = REJECTED

\* the sub-tasks of a parent that are PLANNED with every dependency DONE
Ready(parent) ==
    {t \in DOMAIN tasks :
        /\ tasks[t].parent_id = parent
        /\ tasks[t].status = PLANNED
        /\ \A d \in tasks[t].depends_on : d \in DOMAIN tasks /\ tasks[d].status = DONE}
Children(parent) == {t \in DOMAIN tasks : tasks[t].parent_id = parent}

\* C13: right after the user approves a PENDING agent_failed checkpoint on a
\* campaign parent, the parent is not REJECTED, a sub-task that is ready has
\* been dispatched unless one is still running, and when every sub-task is
\* DONE or REJECTED the campaign has been finalised
C13_SkipAndContinue ==
    (/\ last.kind = "approve" /\ last.was = PENDING
     /\ cps[last.cp].source_role = "agent_failed") =>
        LET parent == cps[last.cp].task_id IN
        /\ tasks[parent].status # REJECTED
        /\ (Ready(parent) # {} =>
                \E t \in Children(parent) : tasks[t].status \in _RUNNING_STATUSES)
        /\ ((\A t \in Children(parent) : tasks[t].status \in {DONE, REJECTED}) =>
                \E f \in mid.finalised : f[1] = parent)

\* the retries a history shows: the REJECTED -> PLANNED steps of a task
Redispatches(history) ==
    Cardinality({i \in 1..(Len(history) - 1) :
                    history[i] = REJECTED /\ history[i + 1] = PLANNED})

\* the step handles the first delivery of a Reviewer's reject verdict without
\* security concerns, and docker and git answer normally during it
ReviewerRejects ==
    /\ last'.kind = "message" /\ last'.type = TASK_COMPLETE
    /\ last'.v = "reject" /\ ~last'.sec
    /\ last'.agent_id \in DOMAIN agents
    /\ agents[last'.agent_id].role = REVIEWER
    /\ last'.task_id \in DOMAIN tasks
    /\ ids'.incidents = ids.incidents

NewAgents == {a \in DOMAIN running' : a \notin DOMAIN running}
NewCheckpoints == {c \in DOMAIN cps' : c \notin DOMAIN cps}

RetriedByReviewer(t, by) ==
    /\ tasks'[t].reviewer_retry_count = tasks[t].reviewer_retry_count + 1
    /\ tasks'[t].agent_outputs.reviewer_feedback = [by |-> by, v |-> "reject"]
    /\ tasks'[t].history = tasks[t].history \o <<REJECTED, PLANNED, ACTIVE>>
    /\ \E a \in NewAgents : running'[a] = [role |-> DEV, task_id |-> t]

EscalatedByReviewer(t) ==
    /\ \A a \in NewAgents : running'[a].role # DEV
    /\ \E c \in NewCheckpoints :
          /\ cps'[c].task_id = t
          /\ cps'[c].status = PENDING
          /\ cps'[c].source_role = "reviewer"

ReviewApplies(t) ==
    /\ settings.reviewer_enabled
    /\ (settings.review_mode = PER_SUBTASK) = (tasks[t].parent_id # NoTask)
QAApplies(t) ==
    /\ settings.qa_enabled
    /\ (settings.qa_mode = PER_SUBTASK) = (tasks[t].parent_id # NoTask)

\* C15: in a run without docker or git faults and without duplicate
\* deliveries, a task that DEV was re-dispatched for after a reviewer or QA
\* rejection is DONE only with a Reviewer respectively QA outcome that is
\* later than the output of the re-run DEV (agent ids grow with time)
C15_RetryReentersGates ==
    \A t \in DOMAIN tasks :
        (/\ ids.incidents = 0
         /\ tasks[t].status = DONE
         /\ tasks[t].reviewer_retry_count + tasks[t].qa_retry_count > 0) =>
            /\ ReviewApplies(t) =>
                  tasks[t].agent_outputs.reviewer.by > tasks[t].agent_outputs.dev.by
            /\ QAApplies(t) =>
                  tasks[t].agent_outputs.qa.by > tasks[t].agent_outputs.dev.by

\* the merge_conflict checkpoints that are PENDING after the step
PendingConflicts ==
    {c \in DOMAIN cps' : cps'[c].status = PENDING /\ cps'[c].source_role = "merge_conflict"}

FinalisedOf(finalised, parent) == {f \in finalised : f[1] = parent}

\* C16: while a merge_conflict checkpoint is PENDING on a sub-task, from the
\* step that creates it on, the sub-task is DONE, the checkpoint is the only
\* PENDING merge_conflict checkpoint of that sub-task, no sub-task of the
\* campaign is dispatched and the parent is not finalised
C16_ConflictPausesCampaign ==
    [][\A c \in PendingConflicts :
          LET t == cps'[c].task_id
              parent == tasks'[t].parent_id
          IN /\ tasks'[t].status = DONE
             /\ \A d \in PendingConflicts : cps'[d].task_id = t => d = c
             /\ \A a \in NewAgents : tasks'[running'[a].task_id].parent_id # parent
             /\ FinalisedOf(mid'.finalised, parent) = FinalisedOf(mid.finalised, parent)]_vars

\* the campaign goes on for a parent: a ready sub-task is running unless
\* none is ready, and the campaign is finalised once every sub-task is DONE
Continues(parent) ==
    /\ Ready(parent) # {} =>
          \E t \in Children(parent) : tasks[t].status \in _RUNNING_STATUSES
    /\ (\A t \in Children(parent) : tasks[t].status = DONE) =>
          FinalisedOf(mid.finalised, parent) # {}

\* C17: right after the user approves a PENDING merge_conflict checkpoint of
\* a sub-task, the resolution is committed to the working branch, the
\* sub-task's worktree and branch are gone, and the campaign continues
C17_ApprovedConflictContinues ==
    (/\ last.kind = "approve" /\ last.was = PENDING
     /\ cps[last.cp].source_role = "merge_conflict") =>
        LET t == cps[last.cp].task_id IN
        /\ t \in git.merged
        /\ t \notin git.worktrees /\ t \notin git.branches
        /\ Continues(tasks[t].parent_id)

\* C18: right after the user rejects a PENDING merge_conflict checkpoint of a
\* sub-task, the sub-task's worktree and branch are gone, its branch is not
\* merged, and the campaign parent is REJECTED
C18_RejectedConflictCascades ==
    (/\ last.kind = "reject" /\ last.was = PENDING
     /\ cps[last.cp].source_role = "merge_conflict") =>
        LET t == cps[last.cp].task_id IN
        /\ t \notin git.worktrees /\ t \notin git.branches
        /\ t \notin git.merged
        /\ tasks[tasks[t].parent_id].status = REJECTED

\* the handler treated the conflicted merge of a task's branch as resolved:
\* worktree and branch are cleaned up and no merge_conflict checkpoint waits
TreatedAsResolved(task_id) ==
    /\ task_id \notin git.worktrees /\ task_id \notin git.branches
    /\ ~\E c \in DOMAIN cps :
          /\ cps[c].task_id = task_id
          /\ cps[c].source_role = "merge_conflict"
          /\ cps[c].status = PENDING

\* C19: right after a handler met a conflicted merge of a sub-task branch, the
\* conflict was treated as resolved exactly when every conflicted file
\* matches an auto-resolve pattern and the resolution was staged and
\* committed, and then the branch is merged
C19_AutoResolveIff ==
    \A e \in mid.merges :
        (e.merge.result = "failed" /\ e.merge.conflict_files # {}) =>
            /\ TreatedAsResolved(e.task_id) <=>
                  (/\ _can_auto_resolve(e.merge.conflict_files)
                   /\ e.merge.resolve_ok /\ e.merge.commit_ok)
            /\ TreatedAsResolved(e.task_id) => e.task_id \in git.merged

\* the user rejected a merge_conflict checkpoint of the task
ConflictRejected(t) ==
    \E c \in DOMAIN cps :
        /\ cps[c].task_id = t
        /\ cps[c].source_role = "merge_conflict"
        /\ cps[c].status = REJECTED

\* git gave up on the merge without leaving the work in the working branch:
\* the merge raised, failed without conflicts, or its staged auto-resolution
\* could not be committed
MergeGivenUp(m) ==
    \/ m.result = "raise"
    \/ m.result = "failed" /\ m.conflict_files = {}
    \/ /\ m.result = "failed" /\ m.conflict_files # {}
       /\ _can_auto_resolve(m.conflict_files) /\ m.resolve_ok /\ ~m.commit_ok

\* C20: the branch of a sub-task that reached DONE is deleted only when it is
\* merged into the working branch, unless the user rejected its merge_conflict
\* checkpoint; and right after a merge that git gave up on, the branch is
\* still there and the worktree is removed
C20_WorkNeverLost ==
    /\ \A t \in DOMAIN tasks :
          (/\ tasks[t].branch_name
           /\ \E i \in 1..Len(tasks[t].history) : tasks[t].history[i] = DONE
           /\ t \notin git.branches
           /\ ~ConflictRejected(t)) => t \in git.merged
    /\ \A e \in mid.merges :
          MergeGivenUp(e.merge) =>
              e.task_id \in git.branches /\ e.task_id \notin git.worktrees

\* a campaign dispatched in parallel mode: its original branch was saved
HasCampaignBranch(parent) == tasks[parent].agent_outputs._original_branch # NoOutput

InProgress(parent) ==
    {t \in Children(parent) : tasks[t].status \in {ACTIVE, REVIEW, TESTING}}

\* the dev AgentInfo records that refer to a sub-task of a campaign
DevRecords(parent) ==
    {a \in DOMAIN agents : agents[a].role = DEV /\ agents[a].task_id \in Children(parent)}

\* a task that was started: it has been ACTIVE
Started(t) == \E i \in 1..Len(tasks[t].history) : tasks[t].history[i] = ACTIVE

ApproveRouted ==
    \E cp \in DOMAIN cps :
    \E o \in Oracles :
        /\ Commit(routed_approve(Store(o), cp), Incidents(o, cps[cp].status # PENDING), {},
                  Last("approve", NoMsg, cp, cps[cp].status, Seen(approve(Store(o), cp), cp),
                       FALSE))
        /\ UNCHANGED delivered

\* on_checkpoint_rejected called with the recorded source_role, after
\* CheckpointManager.reject
RejectRouted ==
    \E cp \in DOMAIN cps :
    \E o \in Oracles :
        /\ Commit(routed_reject(Store(o), cp), Incidents(o, cps[cp].status # PENDING), {},
                  Last("reject", NoMsg, cp, cps[cp].status, Seen(reject(Store(o), cp), cp),
                       FALSE))
        /\ UNCHANGED delivered

RoutedNext ==
    \/ CreateTask
    \/ AgentMessage
    \/ Redeliver
    \/ ApproveRouted
    \/ RejectRouted

\* the orchestrator with both hooks told which checkpoint was resolved
RoutedSpec == Init /\ [][RoutedNext]_vars

\* a checkpoint of the given source on a task has been approved at some time
Approved(task_id, source_role) ==
    \E cp \in DOMAIN cps :
        /\ cps[cp].task_id = task_id
        /\ cps[cp].source_role = source_role
        /\ cp \in mid.approvals

\* an Architect ran for the campaign: a record of it exists or its output is stored
ArchitectSpawned(parent) ==
    \/ \E a \in DOMAIN agents : agents[a].role = ARCHITECT /\ agents[a].task_id = parent
    \/ tasks[parent].agent_outputs.architect # NoOutput

RejectionWalk(status) ==
    IF status = CREATED THEN <<PLANNED, ACTIVE, REVIEW, REJECTED>>
    ELSE <<ACTIVE, REVIEW, REJECTED>>

\* a history whose last entries are the given statuses
EndsWith(history, tail) ==
    /\ Len(history) >= Len(tail)
    /\ SubSeq(history, Len(history) - Len(tail) + 1, Len(history)) = tail

\* the dev agents recorded for a child of a campaign
DevsOf(records, children) ==
    {a \in DOMAIN records : records[a].role = DEV /\ records[a].task_id \in children}

set_paused(flag) == paused' = flag

\* EventBus.resume_dispatch: the dispatcher re-scans the campaigns that are
\* under way for ready work
resume_dispatch(s) ==
    LET under_way == {t \in DOMAIN s.tasks :
                         s.tasks[t].status = ACTIVE /\ s.tasks[t].subtask_ids # <<>>}
    IN IF under_way = {} THEN Ok(s)
       ELSE LET parent_id == CHOOSE t \in under_way : \A u \in under_way : t <= u
            IN IF settings.parallel_enabled
               THEN Then(dispatch_all_ready(s, parent_id), LAMBDA s1 : Ok(s1))
               ELSE Then(dispatch_next(s, parent_id), LAMBDA s1 : Ok(s1))

\* POST /system/pause
Pause ==
    /\ ~paused
    /\ set_paused(TRUE)
    /\ last' = Last("pause", NoMsg, 0, "none", NoSeen, FALSE)
    /\ UNCHANGED <<settings, tasks, agents, cps, pending, running, git, delivered, ids, mid, co,
                   ws>>

\* POST /system/resume
Resume ==
    /\ paused
    /\ set_paused(FALSE)
    /\ \E o \in Oracles :
          Written(resume_dispatch(Store(o)), Incidents(o, FALSE), {},
                  Last("resume", NoMsg, 0, "none", NoSeen, FALSE))
    /\ UNCHANGED <<delivered, co, ws>>

PausableNext ==
    \/ CreateTask
    \/ AgentMessage
    \/ Redeliver
    \/ ApproveCheckpoint
    \/ RejectCheckpoint
    \/ Pause
    \/ Resume

\* the orchestrator with the pause and resume endpoints in use
PausableSpec == Init /\ [][PausableNext]_vars

\* the dev agents of sub-tasks among the agent records
SubtaskDevs(records, store) ==
    {a \in DOMAIN records :
        records[a].role = DEV /\ store[records[a].task_id].parent_id # NoTask}

\* C25: a step taken while the paused flag is set, and that leaves it set,
\* spawns no dev agent for a sub-task
C25_PausedNoDispatch ==
    [][(paused /\ paused') => SubtaskDevs(agents', tasks') \subseteq SubtaskDevs(agents, tasks)]_vars

\* ------------------------------------- an approve request across an await
\* approve_checkpoint up to the read of the parent in _dispatch_initial:
\* CheckpointManager.approve, then the hook (no source_role) down to
\* "parent = await self.task_store.get(parent_id)" in parallel mode; the
\* result carries the parent object the request holds, with _original_branch
\* set on it, and raises when the request does not get there
approve_checkpoint_to_read(s, checkpoint_id) ==
    ThenR(approve(s, checkpoint_id), LAMBDA s1, cp :
          IF cp = "None" THEN Raise(s1)
          ELSE LET task_id == s1.cps[checkpoint_id].task_id IN
               IF /\ Has(s1, task_id)
                  /\ get(s1, task_id).subtask_ids # <<>>
                  /\ settings.parallel_enabled
               THEN Ret(s1, [get(s1, task_id) EXCEPT
                                !.agent_outputs._original_branch = get_current_branch(s1)])
               ELSE Raise(s1))

\* the request has read the parent and waits for the store
Suspended(r, cp) ==
    /\ ~r.ex
    /\ co' = [pc |-> "update", cp |-> cp, parent_id |-> cps[cp].task_id, parent |-> r.ret]

\* POST /checkpoints/{id}/approve, up to the await on the parent's update
ApproveBegins ==
    \E cp \in DOMAIN cps :
        /\ co = Idle
        /\ Suspended(approve_checkpoint_to_read(Store(Quiet), cp), cp)
        /\ Written(approve_checkpoint_to_read(Store(Quiet), cp),
                   Incidents(Quiet, cps[cp].status # PENDING), {},
                   Last("approve_begins", NoMsg, cp, cps[cp].status, NoSeen, FALSE))
        /\ UNCHANGED <<delivered, paused, ws>>

\* the rest of the request: the parent object is written, the working branch
\* made and the ready sub-tasks dispatched
ApproveEnds ==
    \E o \in Oracles :
        /\ co # Idle
        /\ Written(_dispatch_initial_written(Store(o), co.parent_id, TRUE, co.parent),
                   Incidents(o, FALSE), {},
                   Last("approve_ends", NoMsg, co.cp, "none", NoSeen, FALSE))
        /\ co' = Idle
        /\ UNCHANGED <<delivered, paused, ws>>

\* the reactor handles messages while an approve request is suspended
InterleavedNext ==
    \/ co = Idle /\ CreateTask
    \/ AgentMessage
    \/ Redeliver
    \/ co = Idle /\ ApproveCheckpoint
    \/ co = Idle /\ RejectCheckpoint
    \/ ApproveBegins
    \/ ApproveEnds

\* the orchestrator with approve requests that share the event loop with the
\* reactor
InterleavedSpec == Init /\ [][InterleavedNext]_vars

\* a history that continues another
Continued(before, after) ==
    /\ Len(after) >= Len(before)
    /\ SubSeq(after, 1, Len(before)) = before

\* C26: in a run without a fault, a duplicate message or a stale checkpoint
\* request, no step loses a status update: every task's history after the
\* step continues its history before it
C26_NoLostUpdate ==
    [][ids'.incidents = 0 =>
          \A t \in DOMAIN tasks : Continued(tasks[t].history, tasks'[t].history)]_vars

\* ------------------------------------------- the reactor and its listeners
Clients == 1..MaxClients

\* ws.py websocket_endpoint: accept, then register in ws_connections
Connect ==
    \E c \in Clients \ ws.met :
        /\ ws' = [ws EXCEPT !.connections = Append(@, c), !.open = @ \cup {c},
                            !.waiting = @ \cup {c}, !.met = @ \cup {c}]
        /\ UNCHANGED <<settings, tasks, agents, cps, pending, running, git, delivered, ids,
                       last, mid, paused, co>>

\* a client closes its socket
Hangup ==
    \E c \in ws.open :
        /\ ws' = [ws EXCEPT !.open = @ \ {c}]
        /\ UNCHANGED <<settings, tasks, agents, cps, pending, running, git, delivered, ids,
                       last, mid, paused, co>>

\* list.remove(ws): the first occurrence is taken out
Remove(connections, c) ==
    LET at == CHOOSE k \in 1..Len(connections) :
                  connections[k] = c /\ \A j \in 1..(k - 1) : connections[j] # c
    IN SubSeq(connections, 1, at - 1) \o SubSeq(connections, at + 1, Len(connections))

Listed(connections, c) == \E k \in 1..Len(connections) : connections[k] = c

\* ws.py websocket_endpoint: receive_text raises WebSocketDisconnect and the
\* endpoint unregisters its socket if it is still listed
Unregister ==
    \E c \in ws.waiting \ ws.open :
        /\ ws' = [ws EXCEPT !.waiting = @ \ {c},
                            !.connections = IF Listed(@, c) THEN Remove(@, c) ELSE @]
        /\ UNCHANGED <<settings, tasks, agents, cps, pending, running, git, delivered, ids,
                       last, mid, paused, co>>

\* "for ws in disconnected: self.ws_connections.remove(ws)" from position k;
\* list.remove raises ValueError for a socket that is not listed
RECURSIVE remove_disconnected(_, _, _)
remove_disconnected(connections, disconnected, k) ==
    IF k > Len(disconnected) THEN [connections |-> connections, ex |-> FALSE]
    ELSE IF ~Listed(connections, disconnected[k])
    THEN [connections |-> connections, ex |-> TRUE]
    ELSE remove_disconnected(Remove(connections, disconnected[k]), disconnected, k + 1)

\* the reactor takes the next message: the try block of _handle_agent_message,
\* then _broadcast_to_ws up to its first "await ws.send_text(data)"; i is
\* the position of the list the loop has taken its socket from
Consume ==
    /\ ws.listening
    /\ ws.pc = "idle"
    /\ Received \/ ReceivedAgain
    /\ ws' = IF ws.connections = <<>> THEN ws
             ELSE [ws EXCEPT !.pc = "send", !.i = 1, !.cur = ws.connections[1],
                             !.disconnected = <<>>]
    /\ UNCHANGED <<paused, co>>

\* the sockets _broadcast_to_ws has found disconnected once the send it
\* waits for returns: send_text fails when the client is gone
found_disconnected ==
    IF ws.cur \in ws.open THEN ws.disconnected ELSE Append(ws.disconnected, ws.cur)

\* _broadcast_to_ws from the return of a send_text to the next await: the
\* loop takes the next socket of the list as it is now, or the list is
\* exhausted and the disconnected sockets are removed; an exception leaves
\* _handle_agent_message and ends the "async for" of EventBus.start
Sent ==
    /\ ws.pc = "send"
    /\ ws' = IF ws.i + 1 <= Len(ws.connections)
             THEN [ws EXCEPT !.i = @ + 1, !.cur = ws.connections[ws.i + 1],
                             !.disconnected = found_disconnected]
             ELSE [ws EXCEPT
                     !.pc = "idle", !.i = 0, !.cur = 0, !.disconnected = <<>>,
                     !.connections =
                         remove_disconnected(ws.connections, found_disconnected, 1).connections,
                     !.listening =
                         ~remove_disconnected(ws.connections, found_disconnected, 1).ex]
    /\ UNCHANGED <<settings, tasks, agents, cps, pending, running, git, delivered, ids,
                   last, mid, paused, co>>

ReactorNext ==
    \/ CreateTask
    \/ Connect
    \/ Hangup
    \/ Unregister
    \/ Consume
    \/ Sent

\* the reactor loop with WebSocket clients that come and go; no checkpoint is
\* resolved
ReactorSpec == Init /\ [][ReactorNext]_vars

\* C27: the reactor loop keeps consuming: no exception leaves the
\* per-message handler
C27_ReactorKeepsConsuming == ws.listening

\* C28: every task whose agent could not be spawned by the handler that ran
\* last ends REJECTED, with a history of valid transitions; none is left
\* PLANNED without an agent
C28_SpawnFailureRejects ==
    \A t \in {e.task_id : e \in {u \in mid.unspawned : u.role \in {PM, DEV}}} :
        t \in DOMAIN tasks =>
            /\ tasks[t].status = REJECTED
            /\ \A i \in 1..(Len(tasks[t].history) - 1) :
                   tasks[t].history[i + 1] \in VALID_TRANSITIONS(tasks[t].history[i])

\* C29: every id in the depends_on of a sub-task is the id of a sibling that
\* the same run of the PM-complete handler created before it, in sequential
\* and in parallel mode, so no chain of dependencies returns to its start
C29_DependsOnEarlierSiblings ==
    /\ [](\A t \in DOMAIN tasks : \A d \in tasks[t].depends_on :
              /\ d \in DOMAIN tasks
              /\ d < t
              /\ tasks[t].parent_id # NoTask
              /\ tasks[d].parent_id = tasks[t].parent_id)
    /\ [][/\ \A t \in DOMAIN tasks' \ DOMAIN tasks :
                 tasks'[t].depends_on \subseteq DOMAIN tasks' \ DOMAIN tasks
          /\ \A t \in DOMAIN tasks \cap DOMAIN tasks' :
                 tasks'[t].depends_on = tasks[t].depends_on]_vars

\* a parallel plan whose second sub-task names the first in its depends_on
C29_Witness ==
    /\ settings.parallel_enabled
    /\ \E t \in DOMAIN tasks : tasks[t].depends_on # {}

C31_FailedWhenAChildRejected ==
    \A e \in mid.answers :
        (/\ e.status # BLOCKED
         /\ e.children \cap _RUNNING_STATUSES = {}
         /\ REJECTED \in e.children)
            => /\ e.ret = "failed"
               /\ tasks[e.parent_id].status = REJECTED
               /\ EndsWith(tasks[e.parent_id].history, <<ACTIVE, REVIEW, REJECTED>>)

\* C32: after dispatch_all_ready(parent) returned no child of the parent is
\* PLANNED with all its depends_on DONE; every child that was ready is ACTIVE
\* with its worktree, its branch, a DEV agent record and assigned_to, or has
\* been walked PLANNED -> ACTIVE -> REVIEW -> REJECTED; the other children
\* are unchanged; the count returned is that of the children made ACTIVE
C32_AllReadyDispatched ==
    \A e \in mid.dispatches :
        LET kids == {e.before[e.parent_id].subtask_ids[i] :
                        i \in 1..Len(e.before[e.parent_id].subtask_ids)} \cap DOMAIN e.before
            IsReady(store, c) ==
                /\ store[c].status = PLANNED
                /\ \A d \in store[c].depends_on : d \in DOMAIN store /\ store[d].status = DONE
            MadeActive(c) ==
                /\ e.after[c].status = ACTIVE
                /\ e.after[c].history = Append(e.before[c].history, ACTIVE)
                /\ e.after[c].branch_name
                /\ c \in e.worktrees \cap e.branches
                /\ e.after[c].assigned_to \in DOMAIN e.agents
                /\ e.agents[e.after[c].assigned_to].role = DEV
                /\ e.agents[e.after[c].assigned_to].task_id = c
            Walked(c) ==
                /\ e.after[c].status = REJECTED
                /\ e.after[c].history = e.before[c].history \o <<ACTIVE, REVIEW, REJECTED>>
                /\ c \notin e.worktrees \cup e.branches
        IN /\ \A c \in kids : ~IsReady(e.after, c)
           /\ \A c \in kids : IsReady(e.before, c) => (MadeActive(c) \/ Walked(c))
           /\ \A c \in kids : ~IsReady(e.before, c) => e.after[c] = e.before[c]
           /\ e.ret = Cardinality({c \in kids : IsReady(e.before, c) /\ MadeActive(c)})

\* a call that made one child ACTIVE and walked the other, whose agent could
\* not be spawned, to REJECTED
C32_Witness ==
    \E e \in mid.dispatches :
        /\ e.ret = 1
        /\ \E c \in DOMAIN e.after :
               /\ e.after[c].parent_id = e.parent_id
               /\ e.before[c].status = PLANNED
               /\ e.after[c].status = REJECTED

\* C33: in parallel mode, for every PM plan, malformed entries included, the
\* depends_on of the child created from an entry is exactly the set of the
\* children created from the entries at the 0-based indices the PM listed for
\* it, less the indices at or beyond the entry's own position
C33_IndicesResolveToListedEntries ==
    \A e \in mid.plans :
        LET Valid == {k \in 1..Len(e.raw) : e.raw[k].ok}
            child(k) == e.child_ids[Cardinality({j \in Valid : j <= k})]
        IN settings.parallel_enabled =>
               \A k \in Valid :
                   tasks[child(k)].depends_on =
                       {child(d + 1) :
                           d \in {x \in e.raw[k].depends_on : x < k - 1 /\ x + 1 \in Valid}}

\* C34: the handler of a Reviewer result with security concerns, whatever the
\* verdict, creates a PENDING checkpoint on the reviewed task; and as long as
\* a reviewer checkpoint on a task stays PENDING the task goes neither to
\* TESTING nor to DONE, is not queued again and gets no new DEV agent
C34_SecurityConcernsHold ==
    [][/\ (/\ last'.kind = "message"
           /\ last'.agent_id \in DOMAIN running
           /\ running[last'.agent_id].role = REVIEWER
           /\ last'.type = TASK_COMPLETE
           /\ last'.v \in {"approve", "reject"}
           /\ last'.sec)
              => /\ \E cp \in NewCheckpoints :
                        /\ cps'[cp].status = PENDING
                        /\ cps'[cp].task_id = last'.task_id
                        /\ cps'[cp].source_role = "reviewer"
                        /\ cp \in pending'
                 /\ tasks'[last'.task_id].status = tasks[last'.task_id].status
                 /\ \A a \in NewAgents : running'[a].task_id # last'.task_id
       /\ \A cp \in DOMAIN cps :
              (/\ cps[cp].source_role = "reviewer"
               /\ cps[cp].status = PENDING
               /\ cps'[cp].status = PENDING)
                  => /\ tasks'[cps[cp].task_id].status \in {TESTING, DONE, PLANNED}
                         => tasks'[cps[cp].task_id].status = tasks[cps[cp].task_id].status
                     /\ \A a \in NewAgents :
                            ~(running'[a].role = DEV /\ running'[a].task_id = cps[cp].task_id)]_vars

\* a Reviewer approved with security concerns and the checkpoint is pending
C34_Witness ==
    /\ last.kind = "message"
    /\ last.v = "approve"
    /\ last.sec
    /\ \E cp \in pending : cps[cp].source_role = "reviewer" /\ cps[cp].task_id = last.task_id

\* the configurations with both gates enabled, each with the default retry
\* limit
GatedSettings ==
    {c \in [parallel_enabled : BOOLEAN, architect_review : {TRUE},
            reviewer_enabled : {TRUE}, review_mode : {PER_SUBTASK, PER_CAMPAIGN},
            reviewer_max_retries : {MaxRetries},
            qa_enabled : {TRUE}, qa_mode : {PER_SUBTASK, PER_CAMPAIGN},
            qa_max_retries : {MaxRetries}] :
        c.parallel_enabled => c.review_mode = PER_CAMPAIGN}

GatedInit ==
    /\ settings \in GatedSettings
    /\ tasks = <<>>
    /\ agents = <<>>
    /\ cps = <<>>
    /\ pending = {}
    /\ running = <<>>
    /\ git = [worktrees |-> {}, branches |-> {}, merged |-> {}, campaigns |-> {}, landed |-> {},
              tried |-> {}, head |-> NoTask]
    /\ delivered = {}
    /\ ids = [nextTask |-> 1, nextAgent |-> 1, nextCp |-> 1, incidents |-> 0]
    /\ last = Last("init", NoMsg, 0, "none", NoSeen, FALSE)
    /\ mid = [peak |-> 0, depsBroken |-> {}, finalised |-> {}, merges |-> {}, landings |-> {},
              approvals |-> {}, unspawned |-> {}, answers |-> {},
              dispatches |-> {}, plans |-> {}, stale |-> {}]
    /\ paused = FALSE
    /\ co = Idle
    /\ ws = NoClients

\* the program run with the Reviewer and the QA gate both enabled
GatedSpec == GatedInit /\ [][Next]_vars

\* C35: a Reviewer or QA gate whose agent could not be spawned, or whose
\* output holds no verdict, counts as passed: the task is not left waiting
\* in REVIEW or TESTING, and on an output without a verdict every task gets
\* the transitions it would get on approve (Reviewer) or pass (QA)
C35_BrokenGatePasses ==
    [][/\ \A u \in mid'.unspawned :
              (mid' # mid /\ u.role \in {REVIEWER, QA})
                  => tasks'[u.task_id].status \notin {REVIEW, TESTING}
       /\ (/\ last'.kind = "message"
           /\ last'.agent_id \in DOMAIN running
           /\ running[last'.agent_id].role \in {REVIEWER, QA}
           /\ last'.type = TASK_COMPLETE
           /\ last'.v = "garbage")
              => /\ tasks'[last'.task_id].status \notin {REVIEW, TESTING}
                 /\ ids'.incidents = ids.incidents
                       => \A t \in DOMAIN tasks' :
                              tasks'[t].history =
                                  _handle_agent_message(
                                      Store(Quiet),
                                      [type |-> TASK_COMPLETE, task_id |-> last'.task_id,
                                       agent_id |-> last'.agent_id,
                                       v |-> IF running[last'.agent_id].role = REVIEWER
                                             THEN "approve" ELSE "pass",
                                       sec |-> FALSE, plan |-> <<>>]).s.tasks[t].history]_vars

\* C36: every TaskStore.update writes the status the store holds for that
\* task at the moment of the write, so the status changes through
\* update_status alone and no update overwrites a transition
C36_UpdateKeepsStatus == mid.stale = {}

ReviewedInit ==
    /\ settings \in ReviewedSettings
    /\ tasks = <<>>
    /\ agents = <<>>
    /\ cps = <<>>
    /\ pending = {}
    /\ running = <<>>
    /\ git = [worktrees |-> {}, branches |-> {}, merged |-> {}, campaigns |-> {}, landed |-> {},
              tried |-> {}, head |-> NoTask]
    /\ delivered = {}
    /\ ids = [nextTask |-> 1, nextAgent |-> 1, nextCp |-> 1, incidents |-> 0]
    /\ last = Last("init", NoMsg, 0, "none", NoSeen, FALSE)
    /\ mid = [peak |-> 0, depsBroken |-> {}, finalised |-> {}, merges |-> {}, landings |-> {},
              approvals |-> {}, unspawned |-> {}, answers |-> {},
              dispatches |-> {}, plans |-> {}, stale |-> {}]
    /\ paused = FALSE
    /\ co = Idle
    /\ ws = NoClients

\* a parallel campaign with the per-subtask Reviewer, the hooks being given
\* the source_role the checkpoint records
ReviewedSpec == ReviewedInit /\ [][RoutedNext]_vars

\* the configuration of the runs with two campaigns: parallel mode, no gate
ConcurrentSettings ==
    {[parallel_enabled |-> TRUE, architect_review |-> TRUE,
      reviewer_enabled |-> FALSE, review_mode |-> PER_SUBTASK,
      reviewer_max_retries |-> MaxRetries,
      qa_enabled |-> FALSE, qa_mode |-> PER_SUBTASK, qa_max_retries |-> MaxRetries]}

\* the store is empty and the run meets no incident
ConcurrentInit ==
    /\ settings \in ConcurrentSettings
    /\ tasks = <<>>
    /\ agents = <<>>
    /\ cps = <<>>
    /\ pending = {}
    /\ running = <<>>
    /\ git = [worktrees |-> {}, branches |-> {}, merged |-> {}, campaigns |-> {}, landed |-> {},
              tried |-> {}, head |-> NoTask]
    /\ delivered = {}
    /\ ids = [nextTask |-> 1, nextAgent |-> 1, nextCp |-> 1, incidents |-> MaxIncidents]
    /\ last = Last("init", NoMsg, 0, "none", NoSeen, FALSE)
    /\ mid = [peak |-> 0, depsBroken |-> {}, finalised |-> {}, merges |-> {}, landings |-> {},
              approvals |-> {}, unspawned |-> {}, answers |-> {},
              dispatches |-> {}, plans |-> {}, stale |-> {}]
    /\ paused = FALSE
    /\ co = Idle
    /\ ws = NoClients

\* POST /tasks while an earlier campaign is in the store
CreateCampaign ==
    /\ Cardinality(Roots) >= MaxRoots
    /\ Cardinality(Roots) < MaxCampaigns
    /\ \E o \in {Quiet} :
        Commit(create_task(Store(o), FALSE), Incidents(o, FALSE), {},
               Last("create_task", NoMsg, 0, "none", NoSeen, FALSE))
    /\ UNCHANGED delivered

ConcurrentNext ==
    \/ CreateTask
    \/ CreateCampaign
    \/ AgentMessage
    \/ ApproveCheckpoint
    \/ RejectCheckpoint

\* the orchestrator in parallel mode taking a second campaign while the
\* first one is in the store; docker and git answer every request, the bus
\* delivers each message once and no checkpoint is resolved twice
ConcurrentSpec == ConcurrentInit /\ [][ConcurrentNext]_vars

\* C37: whatever dispatches and retries a sub-task goes through, the
\* Architecture Guidance appendix occurs at most once in its description
C37_GuidanceAtMostOnce == \A t \in DOMAIN tasks : tasks[t].guidance <= 1

\* C38: with two campaigns in parallel mode, every sub-task branch is merged
\* into the working branch of its own campaign, every dispatch creates its
\* worktrees with its own campaign's working branch checked out, and no
\* campaign's saved _original_branch is the working branch of another campaign
C38_CampaignsKeepApart ==
    /\ \A e \in mid.merges :
          e.task_id \in DOMAIN tasks => e.into = tasks[e.task_id].parent_id
    /\ \A e \in mid.dispatches : e.ret > 0 => e.head = e.parent_id
    /\ \A p \in Roots :
          tasks[p].agent_outputs._original_branch # NoOutput =>
              tasks[p].agent_outputs._original_branch.by \notin Roots \ {p}

\* C39: a request to approve or reject a checkpoint that is already APPROVED
\* or REJECTED leaves that checkpoint's status and rejection_reason and the
\* status of every task as they were, dispatches no agent and cleans up no
\* sub-task (no task deleted, no agent record, worktree or branch touched)
C39_ResolvedAtMostOnce ==
    [][\A cp \in DOMAIN cps :
          (last'.kind \in {"approve", "reject"} /\ last'.cp = cp /\ cps[cp].status # PENDING)
              => /\ cps'[cp].status = cps[cp].status
                 /\ cps'[cp].rejection_reason = cps[cp].rejection_reason
                 /\ DOMAIN tasks' = DOMAIN tasks
                 /\ \A t \in DOMAIN tasks : tasks'[t].status = tasks[t].status
                 /\ agents' = agents
                 /\ running' = running
                 /\ git' = git]_vars

\* C40: whenever a campaign parent is DONE, none of its sub-tasks is CREATED,
\* PLANNED, ACTIVE, REVIEW, TESTING or BLOCKED, and no checkpoint on the
\* parent or on one of its sub-tasks is PENDING
C40_DoneCampaignIsSettled ==
    \A p \in Roots :
        (tasks[p].status = DONE /\ tasks[p].subtask_ids # <<>>)
            => /\ \A t \in Family(p) \ {p} :
                     tasks[t].status \notin {CREATED, PLANNED, ACTIVE, REVIEW, TESTING, BLOCKED}
               /\ \A cp \in DOMAIN cps :
                     cps[cp].task_id \in Family(p) => cps[cp].status # PENDING
====
